---------------------------- MODULE Spec2Model ----------------------------
(***************************************************************************)
(* A model of hunter-sim's discrete-event combat simulation:               *)
(*   sim.py      Simulation (event queue, stage/wave loop, run) and        *)
(*               SimulationManager (run, compare_against, __run_sims)      *)
(*   hunters.py  Hunter, Borge, Ozzy (attack, receive_damage, heal, death) *)
(*   units.py    Void (stat tables), Unit / Crit_Unit / Defence_Unit /     *)
(*               Boss                                                      *)
(* Specifications: Spec and FairSpec (one run of a Simulation), QueueSpec  *)
(* (a run whose queue is handed an event of unknown kind), SpawnSpec       *)
(* (spawn_enemies on its own), ManagerSpec (the batch runner), HunterSpec  *)
(* (heal_hp and receive_damage on their own), UnitSpec (the methods of a   *)
(* Unit of units.py on their own), TrampleSpec (the head of the wave loop  *)
(* over a range of powers), BossSpec (a long boss fight), PrintableSpec    *)
(* (make_printable on its own), FiresSpec (runs that include builds with   *)
(* Fires of War, one whose bonus exceeds its speed), ProcsSpec (runs of    *)
(* builds whose effects proc on some attacks only) and AtlasSpec (the stat *)
(* getters of a hunter that advances through the stages).                  *)
(* The Enemy/Boss class that sim.py drives (Enemy(name, hunter, stage,     *)
(* sim) with queue_initial_attack, stun, kill, attack_special, ...) is not *)
(* among the source files; the definitions marked "(spec)" model it from   *)
(* the specification's words, with the stat tables and the attack of       *)
(* units.py.                                                               *)
(*                                                                         *)
(* Units.  Time is kept in thousandths of a second, the precision of       *)
(* round(x, 3) in sim.py; one regen period is Ms thousandths.  Chances are *)
(* per mille, so random.random() < chance is r < chance with r drawn from  *)
(* Rolls.  hp, power and regen are kept in hundredths of a point,          *)
(* multipliers in percent; products with a fractional factor are rounded   *)
(* down.                                                                   *)
(*                                                                         *)
(* Queue.  heapq keeps a binary heap; the model keeps the sorted sequence  *)
(* of the heap's elements, which is the order heappop returns them in.     *)
(*                                                                         *)
(* Builds.  The build configuration is drawn in Init from Builds.  Every   *)
(* build keeps the modifiers that the model does not carry at level 0:     *)
(* born_for_battle, deal_with_death, cycle_of_death, the attraction gems,  *)
(* presence_of_god, omen_of_defeat, soul_of_snek, gift_of_medusa and       *)
(* call_me_lucky_loot; loot and the damage tallies are not modelled.       *)
(* damage_reduction stays within [0, 1].                                   *)
(***************************************************************************)
EXTENDS Integers, Sequences, FiniteSets, TLC

VARIABLES
    cfg,            \* the build configuration the hunter was constructed from
    hunter,         \* the Hunter object's fields, with the dicts load_build hands it
    current_stage,  \* Simulation.current_stage
    elapsed_time,   \* Simulation.elapsed_time (whole seconds)
    queue,          \* Simulation.queue, the heap of (timestamp, priority, action)
    enemies,        \* Simulation.enemies, the enemies of the wave not yet fought
    enemy,          \* the local `enemy` of simulate_combat
    pc,             \* the position of simulate_combat / run
    result,         \* what run() returned
    dispatched,     \* the event popped by the last iteration of the combat loop
    n_dispatched,   \* how many events the combat loop has popped
    stages_completed, \* how many times complete_stage was called
    wave_size,      \* how many units spawn_enemies created for the current wave
    wave_dead,      \* how many of them simulate_combat has seen dead
    spawn_input,    \* the stage handed to spawn_enemies when it is applied on its own
    hunter_config_path, \* SimulationManager.hunter_config_path
    results,        \* SimulationManager.results
    batch,          \* the __run_sims call in progress: its arguments, caller and position
    futures,        \* the runs handed to the process pool, one outcome per run
    res,            \* what __run_sims returned to run(), or first to compare_against
    res_c,          \* what the second __run_sims returned to compare_against
    error,          \* the exception that left the SimulationManager, if any
    call,           \* the method applied on its own last, with its arguments
    ret,            \* what that call returned or raised
    unit            \* a Unit of units.py, for the methods applied to it on its own

\* the state of one Simulation
sim_vars == <<cfg, hunter, current_stage, elapsed_time, queue, enemies, enemy, pc,
              result, dispatched, n_dispatched, stages_completed, wave_size,
              wave_dead, spawn_input>>

\* the state of the SimulationManager
manager_vars == <<hunter_config_path, results, batch, futures, res, res_c, error>>

\* the state of a method applied on its own
call_vars == <<call, ret, unit>>

vars == <<sim_vars, manager_vars, call_vars>>

-----------------------------------------------------------------------------
(* Bounds of the model *)

\* complete_stage is not taken beyond this stage
MaxStage == 101

\* no event is dispatched once elapsed_time has reached this many seconds
MaxTime == 20

\* spawn_enemies, applied on its own, is given the stages 0..MaxSpawnStage
MaxSpawnStage == 201

(* Program constants *)

\* round(x, 3): thousandths per second; the regen tick is one second
Ms == 1000

\* every 100th stage is a boss stage
BossEvery == 100

\* a regular wave has 10 enemies
WaveSize == 10

\* min(int(power / max_hp), 10) in Borge_apply_trample
TrampleCap == 10

\* representatives of random.random() in [0, 1), per mille
Rolls == {0, 999}

Min(a, b) == IF a <= b THEN a ELSE b

NoEnemy == [hp |-> 0, max_hp |-> 0, power |-> 0, speed |-> 0, speed2 |-> 0,
            regen |-> 0, special_chance |-> 0, special_damage |-> 0,
            is_boss |-> FALSE, stage |-> -1]

NoEvent == <<-1, -1, "none">>

-----------------------------------------------------------------------------
(* The event queue: heapq on tuples (timestamp, priority, action) *)

\* Python compares the action strings when timestamp and priority tie
KindRank(k) ==
    CASE k = "enemy" -> 0
      [] k = "enemy_special" -> 1
      [] k = "hunter" -> 2
      [] k = "hunter_special" -> 3
      [] k = "regen" -> 4
      [] k = "stun" -> 5
      [] OTHER -> 6

\* tuple comparison a < b
TupleLt(a, b) ==
    \/ a[1] < b[1]
    \/ a[1] = b[1] /\ a[2] < b[2]
    \/ a[1] = b[1] /\ a[2] = b[2] /\ KindRank(a[3]) < KindRank(b[3])

\* a faulty heappush, for comparison: the queue as a plain list
hpush_append(q, e) == Append(q, e)

\* heappush: the queue is kept as the sorted sequence of its elements, which
\* is the order in which heappop returns them
hpush(q, e) ==
    LET n == Cardinality({i \in 1..Len(q) : ~TupleLt(e, q[i])})
    IN  SubSeq(q, 1, n) \o <<e>> \o SubSeq(q, n + 1, Len(q))

\* heappop returns the smallest element: [ev, q]
hpop(q) == [ev |-> Head(q), q |-> Tail(q)]

RECURSIVE RemoveKinds(_, _)
RemoveKinds(q, kinds) ==
    IF q = <<>> THEN <<>>
    ELSE IF Head(q)[3] \in kinds THEN RemoveKinds(Tail(q), kinds)
         ELSE <<Head(q)>> \o RemoveKinds(Tail(q), kinds)

RECURSIVE RemoveFirstKind(_, _)
RemoveFirstKind(q, kind) ==
    IF q = <<>> THEN <<>>
    ELSE IF Head(q)[3] = kind THEN Tail(q)
         ELSE <<Head(q)>> \o RemoveFirstKind(Tail(q), kind)

Pending(q, kind) == {i \in 1..Len(q) : q[i][3] = kind}

-----------------------------------------------------------------------------
(* Build configurations and the stats Borge.__create__ / Ozzy.__create__    *)
(* derive from them                                                         *)

NoTalents == [death_is_my_companion |-> 0, life_of_the_hunt |-> 0,
              unfair_advantage |-> 0, impeccable_impacts |-> 0,
              fires_of_war |-> 0, tricksters_boon |-> 0,
              thousand_needles |-> 0, omen_of_decay |-> 0,
              crippling_shots |-> 0, echo_bullets |-> 0]

NoAttributes == [helltouch_barrier |-> 0, weakspot_analysis |-> 0,
                 atlas_protocol |-> 0, lifedrain_inhalers |-> 0,
                 dance_of_dashes |-> 0, vectid_elixir |-> 0]

BaseBuild(cls) ==
    [cls |-> cls, max_hp |-> 1000, power |-> 400, regen |-> 0,
     damage_reduction |-> 0, evade_chance |-> 0, effect_chance |-> 0,
     special_chance |-> 0, special_damage |-> 150, speed |-> 2 * Ms,
     lifesteal |-> 0, talents |-> NoTalents, attributes |-> NoAttributes,
     mods |-> [trample |-> FALSE]]

\* Borge that one unevaded hit kills, with two revive charges
BorgeGlass ==
    [BaseBuild("Borge") EXCEPT !.max_hp = 200, !.power = 100,
                               !.evade_chance = 500,
                               !.talents.death_is_my_companion = 2]

\* Borge with one revive charge that reflects half of what it takes
BorgeReflect ==
    [BaseBuild("Borge") EXCEPT !.max_hp = 2000, !.damage_reduction = 500,
                               !.lifesteal = 50, !.regen = 10,
                               !.talents.death_is_my_companion = 1,
                               !.attributes.helltouch_barrier = 10,
                               !.attributes.weakspot_analysis = 2,
                               !.attributes.lifedrain_inhalers = 5]

\* Borge that cannot be hit (evade_chance = 1.0) and kills with one attack
BorgeUntouchable ==
    [BaseBuild("Borge") EXCEPT !.evade_chance = 1000, !.power = 1000,
                               !.speed = Ms]

\* Borge that cannot be hit, with the trample mod
BorgeTrample ==
    [BaseBuild("Borge") EXCEPT !.evade_chance = 1000, !.power = 200000,
                               !.speed = Ms, !.mods.trample = TRUE]

\* Borge that tramples every regular wave and meets the first boss with one
\* revive charge
BorgeBossFighter ==
    [BaseBuild("Borge") EXCEPT !.power = 150000, !.speed = Ms,
                               !.mods.trample = TRUE,
                               !.talents.death_is_my_companion = 1,
                               !.attributes.atlas_protocol = 5,
                               !.attributes.helltouch_barrier = 5]

\* Borge whose every attack procs Life of the Hunt, a stun and Fires of War
BorgeEffects ==
    [BaseBuild("Borge") EXCEPT !.max_hp = 2000, !.power = 100, !.regen = 10,
                               !.effect_chance = 1000,
                               !.talents.life_of_the_hunt = 5,
                               !.talents.impeccable_impacts = 5,
                               !.talents.fires_of_war = 5,
                               !.talents.death_is_my_companion = 1]

\* Borge that stuns on half of its attacks
BorgeStun ==
    [BaseBuild("Borge") EXCEPT !.max_hp = 2000, !.power = 100, !.speed = 3 * Ms,
                               !.effect_chance = 500,
                               !.talents.impeccable_impacts = 10]

\* Ozzy without talents, as fast as the first enemy of Endo Prime
OzzyPlain ==
    [BaseBuild("Ozzy") EXCEPT !.max_hp = 2000, !.power = 100, !.speed = 3200]

\* Ozzy: every main attack multistrikes and stuns, half of them echo
OzzyTriggers ==
    [BaseBuild("Ozzy") EXCEPT !.max_hp = 200, !.power = 100, !.speed = 3200,
                              !.special_chance = 1000, !.special_damage = 50,
                              !.effect_chance = 1000,
                              !.talents.thousand_needles = 4,
                              !.talents.echo_bullets = 10,
                              !.talents.death_is_my_companion = 1]

\* Ozzy with trickster charges, potions, omen of decay and crippling shots
OzzyTrickster ==
    [BaseBuild("Ozzy") EXCEPT !.max_hp = 1000, !.power = 600, !.speed = 3200,
                              !.effect_chance = 1000, !.lifesteal = 50,
                              !.regen = 10,
                              !.talents.tricksters_boon = 1,
                              !.talents.unfair_advantage = 5,
                              !.talents.crippling_shots = 5,
                              !.talents.omen_of_decay = 5,
                              !.attributes.dance_of_dashes = 4,
                              !.attributes.vectid_elixir = 2]

\* Ozzy that kills with its main attack while a multistrike, a stun and, on
\* half of the attacks, an echo are triggered
OzzyBurst ==
    [BaseBuild("Ozzy") EXCEPT !.max_hp = 2000, !.power = 1200, !.speed = 3000,
                              !.special_chance = 1000, !.special_damage = 50,
                              !.effect_chance = 1000,
                              !.talents.thousand_needles = 4,
                              !.talents.echo_bullets = 10]

\* Borge with 120 points in speed (5 - 120 * 0.03 = 1.4 s) whose every attack
\* stuns and procs Fires of War at level 15 (1.5 s)
BorgeFires ==
    [BaseBuild("Borge") EXCEPT !.power = 150000, !.speed = 1400,
                               !.effect_chance = 1000,
                               !.talents.impeccable_impacts = 1,
                               !.talents.fires_of_war = 15]

\* Borge that cannot be hit, kills with one attack and procs Fires of War at
\* level 5 (0.5 s) on half of its attacks, with no other effect talent
BorgeEmber ==
    [BaseBuild("Borge") EXCEPT !.evade_chance = 1000, !.power = 1000,
                               !.effect_chance = 500,
                               !.talents.fires_of_war = 5]

\* Borge with 10 points in atlas_protocol and all three stats it touches
BorgeAtlas ==
    [BaseBuild("Borge") EXCEPT !.damage_reduction = 100, !.effect_chance = 200,
                               !.special_chance = 300,
                               !.attributes.atlas_protocol = 10]

\* Borge that cannot be hit and kills with one attack; Life of the Hunt, the
\* stun and Fires of War each proc on half of its attacks
BorgeProcs ==
    [BaseBuild("Borge") EXCEPT !.evade_chance = 1000, !.power = 1000,
                               !.effect_chance = 500,
                               !.talents.life_of_the_hunt = 5,
                               !.talents.impeccable_impacts = 5,
                               !.talents.fires_of_war = 5]

Builds == {BorgeGlass, BorgeReflect, BorgeUntouchable, BorgeTrample,
           BorgeBossFighter, BorgeEffects, BorgeStun, OzzyPlain, OzzyTriggers,
           OzzyTrickster, OzzyBurst}

\* Hunter.__init__ followed by Borge.__init__ / Ozzy.__init__
Hunter_init(c) ==
    [hp |-> c.max_hp, current_stage |-> 0, times_revived |-> 0,
     revive_log |-> <<>>, total_kills |-> 0, total_attacks |-> 0,
     total_taken |-> 0, total_mitigated |-> 0, total_attacks_suffered |-> 0,
     total_evades |-> 0, total_regen |-> 0, total_lifesteal |-> 0,
     total_loth |-> 0, total_potion |-> 0, total_effect_procs |-> 0,
     total_stuntime_inflicted |-> 0, fires_of_war |-> 0,
     attack_queue |-> <<>>, trickster_charges |-> 0,
     crippling_on_target |-> 0, empowered_regen |-> 0,
     talents |-> c.talents, attributes |-> c.attributes, mods |-> c.mods]

IsBossStage(stage) == stage % BossEvery = 0 /\ stage > 0

-----------------------------------------------------------------------------
(* Hunter: properties *)

Hunter_is_dead(h) == h.hp <= 0

Hunter_missing_hp(h) == cfg.max_hp - h.hp

\* Borge.power / Ozzy.power with born_for_battle, deal_with_death and the gems at 0
Hunter_power(h) == cfg.power

\* Borge.damage_reduction adds atlas_protocol * 0.007 on a boss stage
Hunter_damage_reduction(h) ==
    IF cfg.cls = "Borge" /\ IsBossStage(h.current_stage)
    THEN cfg.damage_reduction + cfg.attributes.atlas_protocol * 7
    ELSE cfg.damage_reduction

\* a faulty effect_chance getter, for comparison: stage 0 is taken for a boss
\* stage
Hunter_effect_chance_stage0(h) ==
    IF cfg.cls = "Borge" /\ h.current_stage % BossEvery = 0
    THEN cfg.effect_chance + cfg.attributes.atlas_protocol * 14
    ELSE cfg.effect_chance

\* Borge.effect_chance adds atlas_protocol * 0.014 on a boss stage
Hunter_effect_chance(h) ==
    IF cfg.cls = "Borge" /\ IsBossStage(h.current_stage)
    THEN cfg.effect_chance + cfg.attributes.atlas_protocol * 14
    ELSE cfg.effect_chance

\* Borge.special_chance adds atlas_protocol * 0.025 on a boss stage
Hunter_special_chance(h) ==
    IF cfg.cls = "Borge" /\ IsBossStage(h.current_stage)
    THEN cfg.special_chance + cfg.attributes.atlas_protocol * 25
    ELSE cfg.special_chance

\* a faulty speed getter, for comparison: the Fires of War bonus is subtracted
\* but not reset
Hunter_speed_keeps(h) ==
    IF cfg.cls = "Borge"
    THEN LET current_speed ==
                 IF IsBossStage(h.current_stage)
                 THEN (cfg.speed * (100 - cfg.attributes.atlas_protocol * 4)) \div 100
                 ELSE cfg.speed
         IN  [speed |-> current_speed - h.fires_of_war, h |-> h]
    ELSE [speed |-> cfg.speed, h |-> h]

\* The speed getter: the value read, and the hunter after the read.  Borge's
\* getter subtracts fires_of_war and resets it; Ozzy's only reads.
Hunter_speed(h) ==
    IF cfg.cls = "Borge"
    THEN LET current_speed ==
                 IF IsBossStage(h.current_stage)
                 THEN (cfg.speed * (100 - cfg.attributes.atlas_protocol * 4)) \div 100
                 ELSE cfg.speed
         IN  [speed |-> current_speed - h.fires_of_war,
              h |-> [h EXCEPT !.fires_of_war = 0]]
    ELSE [speed |-> cfg.speed, h |-> h]

-----------------------------------------------------------------------------
(* Enemy and Boss.  The stat tables are Void.__spawn of units.py; the       *)
(* operations that touch the simulation's queue are modelled from the       *)
(* specification ("spec").                                                  *)

\* the planet whose table is used: Exon-12 for Borge, Endo Prime for Ozzy (spec)
Planet(c) == IF c.cls = "Borge" THEN 0 ELSE 1

\* Void.__spawn, the regular rows: hp, power, regen in hundredths, speed in
\* thousandths, special_chance per mille, special_damage in percent
Void_spawn_regular(planet, stage) ==
    IF planet = 0
    THEN [hp |-> 900 + stage * 400, power |-> 250 + stage * 70,
          speed |-> 4530 - stage * 6,
          regen |-> IF stage > 1 THEN (stage - 1) * 8 ELSE 0,
          special_chance |-> (322 + stage * 4) \div 10,
          special_damage |-> (1210 + stage * 8) \div 10]
    ELSE [hp |-> 1100 + stage * 600, power |-> 135 + stage * 75,
          speed |-> 3200 - stage * 4,
          regen |-> IF stage >= 1 THEN 2 + (stage - 1) * 10 ELSE 0,
          special_chance |-> (994 + stage * 6) \div 10,
          special_damage |-> (1030 + stage * 8) \div 10]

\* Void.__spawn, the boss rows
Void_spawn_boss(planet) ==
    IF planet = 0
    THEN [hp |-> 3681000, power |-> 27550, speed |-> 7850, regen |-> 1544,
          special_chance |-> 122, special_damage |-> 226]
    ELSE [hp |-> 3055000, power |-> 30540, speed |-> 5610, regen |-> 7936,
          special_chance |-> 359, special_damage |-> 183]

\* Void.spawn_exon12 / Void.spawn_endoprime: the number of units of a stage
unit_count(stage) == IF stage % BossEvery = 0 /\ stage > 0 THEN 1 ELSE WaveSize

\* Enemy(name, hunter, stage, sim) and Boss(name, hunter, stage, sim) (spec);
\* the boss's second attack track runs at speed2
Enemy_init(c, stage, is_boss) ==
    LET st == IF is_boss THEN Void_spawn_boss(Planet(c))
              ELSE Void_spawn_regular(Planet(c), stage)
    IN  [hp |-> st.hp, max_hp |-> st.hp, power |-> st.power, speed |-> st.speed,
         speed2 |-> IF is_boss THEN 2 * st.speed ELSE 0,
         regen |-> st.regen, special_chance |-> st.special_chance,
         special_damage |-> st.special_damage, is_boss |-> is_boss,
         stage |-> stage]

Enemy_is_dead(e) == e.hp <= 0

\* a faulty spawn_enemies, for comparison: stage 0 taken for a boss stage
spawn_no_stage0(c, stage) ==
    IF stage % BossEvery = 0
    THEN <<Enemy_init(c, stage, TRUE)>>
    ELSE [i \in 1..WaveSize |-> Enemy_init(c, stage, FALSE)]

\* Simulation.spawn_enemies: the new value of self.enemies
spawn_enemies(c, stage) ==
    IF stage % BossEvery = 0 /\ stage > 0
    THEN <<Enemy_init(c, stage, TRUE)>>
    ELSE [i \in 1..WaveSize |-> Enemy_init(c, stage, FALSE)]

\* Enemy.on_death (spec): the kill is counted and the enemy's pending attacks
\* leave the queue; hp is clamped to dead
Enemy_on_death(w) ==
    [w EXCEPT !.e.hp = 0,
              !.h.total_kills = @ + 1,
              !.q = RemoveKinds(@, {"enemy", "enemy_special"})]

\* Enemy.receive_damage(damage, is_reflected)
Enemy_receive_damage(w, damage, is_reflected) ==
    LET hit == [w EXCEPT !.e.hp = @ - damage]
    IN  IF Enemy_is_dead(hit.e) THEN Enemy_on_death(hit) ELSE hit

\* Enemy.queue_initial_attack (spec): the first attack one speed from now,
\* for a boss also the first special attack
Enemy_queue_initial_attack(q, e, now) ==
    LET q1 == hpush(q, <<now * Ms + e.speed, 2, "enemy">>)
    IN  IF e.is_boss THEN hpush(q1, <<now * Ms + e.speed2, 2, "enemy_special">>)
        ELSE q1

\* Enemy.stun(duration) (spec): the enemy's queued attack is moved back by the
\* duration
Enemy_stun(w, duration) ==
    LET at == Pending(w.q, "enemy")
    IN  IF at = {} THEN w
        ELSE LET i == CHOOSE j \in at : \A k \in at : j <= k
                 ev == w.q[i]
             IN  [w EXCEPT !.q = hpush(RemoveFirstKind(w.q, "enemy"),
                                       <<ev[1] + duration, ev[2], ev[3]>>)]

\* Enemy.regen_hp (spec): one tick, capped at max_hp
Enemy_regen_hp(e) == [e EXCEPT !.hp = Min(e.max_hp, e.hp + e.regen)]

\* Enemy.kill (spec)
Enemy_kill(e) == [e EXCEPT !.hp = 0]

-----------------------------------------------------------------------------
(* Hunter: operations.  A world w is [h, e, q]: the hunter, the enemy being *)
(* fought and the simulation's queue.                                       *)

\* str.lower() on the source tags that are handed to heal_hp
lower(source) ==
    CASE source = "REGEN" -> "regen"
      [] source = "Regen" -> "regen"
      [] source = "Steal" -> "steal"
      [] source = "LotH" -> "loth"
      [] source = "Potion" -> "potion"
      [] source = "Lifesteal" -> "lifesteal"
      [] OTHER -> source

\* the cases of the match in heal_hp
HealSources == {"regen", "steal", "loth", "potion"}

\* Hunter.heal_hp, the hunter it leaves; an unknown source raises after hp
\* was changed
Hunter_heal_hp(h, value, source) ==
    LET effective_heal == Min(value, Hunter_missing_hp(h))
        healed == [h EXCEPT !.hp = @ + effective_heal]
        tag == lower(source)
    IN  CASE tag = "regen" -> [healed EXCEPT !.total_regen = @ + effective_heal]
          [] tag = "steal" -> [healed EXCEPT !.total_lifesteal = @ + effective_heal]
          [] tag = "loth" -> [healed EXCEPT !.total_loth = @ + effective_heal]
          [] tag = "potion" -> [healed EXCEPT !.total_potion = @ + effective_heal]
          [] OTHER -> healed

\* a faulty match, for comparison: `case _` raises nothing
heal_hp_passes(source) == FALSE

\* Hunter.heal_hp, `case _`: whether the call is left by ValueError
heal_hp_raises(source) == lower(source) \notin HealSources

\* a faulty on_death, for comparison: the revive does not consume a charge
Hunter_on_death_free(h) ==
    IF h.times_revived < h.talents.death_is_my_companion
    THEN [h EXCEPT !.hp = (cfg.max_hp * 8) \div 10,
                   !.revive_log = Append(@, h.current_stage)]
    ELSE h

\* a faulty on_death, for comparison: the revive takes its charge out of the
\* talent level itself, as check_death of the superseded Borge of units.py did
Hunter_on_death_spends(h) ==
    IF h.talents.death_is_my_companion > 0
    THEN [h EXCEPT !.hp = (cfg.max_hp * 8) \div 10,
                   !.revive_log = Append(@, h.current_stage),
                   !.times_revived = @ + 1,
                   !.talents.death_is_my_companion = @ - 1]
    ELSE h

\* Hunter.on_death
Hunter_on_death(h) ==
    IF h.times_revived < h.talents.death_is_my_companion
    THEN [h EXCEPT !.hp = (cfg.max_hp * 8) \div 10,
                   !.revive_log = Append(@, h.current_stage),
                   !.times_revived = @ + 1]
    ELSE h

\* a faulty receive_damage, for comparison: an evaded attack is counted among
\* the attacks suffered
Hunter_receive_damage_counted(h, damage, roll) ==
    IF roll < cfg.evade_chance
    THEN [h |-> [h EXCEPT !.total_evades = @ + 1, !.total_attacks_suffered = @ + 1],
          final |-> 0]
    ELSE LET mitigated_damage == (damage * (1000 - Hunter_damage_reduction(h))) \div 1000
             hit == [h EXCEPT !.hp = @ - mitigated_damage,
                              !.total_taken = @ + mitigated_damage,
                              !.total_mitigated = @ + (damage - mitigated_damage),
                              !.total_attacks_suffered = @ + 1]
         IN  [h |-> IF Hunter_is_dead(hit) THEN Hunter_on_death(hit) ELSE hit,
              final |-> mitigated_damage]

\* Hunter.receive_damage: [h, final], final the value returned
Hunter_receive_damage(h, damage, roll) ==
    IF roll < cfg.evade_chance
    THEN [h |-> [h EXCEPT !.total_evades = @ + 1], final |-> 0]
    ELSE LET mitigated_damage == (damage * (1000 - Hunter_damage_reduction(h))) \div 1000
             hit == [h EXCEPT !.hp = @ - mitigated_damage,
                              !.total_taken = @ + mitigated_damage,
                              !.total_mitigated = @ + (damage - mitigated_damage),
                              !.total_attacks_suffered = @ + 1]
         IN  [h |-> IF Hunter_is_dead(hit) THEN Hunter_on_death(hit) ELSE hit,
              final |-> mitigated_damage]

\* a faulty TriggeredEvent, for comparison: the event is queued a second late
TriggeredEvent_late(priority, action) == <<Ms, priority, action>>

\* the tuple Borge.attack and Ozzy.attack push for a triggered event:
\* timestamp 0 with the priority given at the call
TriggeredEvent(priority, action) == <<0, priority, action>>

BorgeRolls == [crit : Rolls, loth : Rolls, stun : Rolls, fow : Rolls]

\* a faulty Borge.attack, for comparison: an attack counts one effect proc
\* however many of its effects procced
Borge_attack_counts_once(w, r) ==
    LET damage == IF r.crit < Hunter_special_chance(w.h)
                  THEN (Hunter_power(w.h) * cfg.special_damage) \div 100
                  ELSE Hunter_power(w.h)
        w1 == Enemy_receive_damage(w, damage, FALSE)
        h1 == [w1.h EXCEPT !.total_attacks = @ + 1]
        h2 == Hunter_heal_hp(h1, (damage * cfg.lifesteal) \div 100, "steal")
        LotH == cfg.talents.life_of_the_hunt
        LotH_healing == (damage * LotH * 6) \div 100
        heals == r.loth < Hunter_effect_chance(h2) /\ LotH > 0
        h3 == IF heals
              THEN [Hunter_heal_hp(h2, LotH_healing, "loth") EXCEPT
                        !.total_loth = @ + LotH_healing]
              ELSE h2
        stuns == r.stun < Hunter_effect_chance(h3) /\ cfg.talents.impeccable_impacts > 0
        q4 == IF stuns THEN hpush(w1.q, TriggeredEvent(0, "stun")) ELSE w1.q
        fires == r.fow < Hunter_effect_chance(h3) /\ cfg.talents.fires_of_war > 0
        h5 == IF fires
              THEN [h3 EXCEPT !.fires_of_war = cfg.talents.fires_of_war * 100]
              ELSE h3
        h6 == IF heals \/ stuns \/ fires
              THEN [h5 EXCEPT !.total_effect_procs = @ + 1]
              ELSE h5
    IN  [h |-> h6, e |-> w1.e, q |-> q4]

\* Borge.attack
Borge_attack(w, r) ==
    LET damage == IF r.crit < Hunter_special_chance(w.h)
                  THEN (Hunter_power(w.h) * cfg.special_damage) \div 100
                  ELSE Hunter_power(w.h)
        w1 == Enemy_receive_damage(w, damage, FALSE)
        h1 == [w1.h EXCEPT !.total_attacks = @ + 1]
        h2 == Hunter_heal_hp(h1, (damage * cfg.lifesteal) \div 100, "steal")
        LotH == cfg.talents.life_of_the_hunt
        LotH_healing == (damage * LotH * 6) \div 100
        h3 == IF r.loth < Hunter_effect_chance(h2) /\ LotH > 0
              THEN [Hunter_heal_hp(h2, LotH_healing, "loth") EXCEPT
                        !.total_loth = @ + LotH_healing,
                        !.total_effect_procs = @ + 1]
              ELSE h2
        stuns == r.stun < Hunter_effect_chance(h3) /\ cfg.talents.impeccable_impacts > 0
        h4 == IF stuns THEN [h3 EXCEPT !.total_effect_procs = @ + 1] ELSE h3
        q4 == IF stuns THEN hpush(w1.q, TriggeredEvent(0, "stun")) ELSE w1.q
        h5 == IF r.fow < Hunter_effect_chance(h4) /\ cfg.talents.fires_of_war > 0
              THEN [h4 EXCEPT !.fires_of_war = cfg.talents.fires_of_war * 100,
                              !.total_effect_procs = @ + 1]
              ELSE h4
    IN  [h |-> h5, e |-> w1.e, q |-> q4]

\* a faulty Borge.receive_damage, for comparison: the hit is reflected without
\* the check that the hunter is still alive
Borge_receive_damage_dying(w, damage, is_crit, r) ==
    LET reduced == IF is_crit
                   THEN (damage * (100 - cfg.attributes.weakspot_analysis * 11)) \div 100
                   ELSE damage
        rd == Hunter_receive_damage(w.h, reduced, r.evade)
        helltouch_effect == IF IsBossStage(rd.h.current_stage) THEN 1 ELSE 10
        reflected_damage ==
            (rd.final * cfg.attributes.helltouch_barrier * 8 * helltouch_effect) \div 1000
        w1 == [w EXCEPT !.h = rd.h]
    IN  IF rd.final > 0
        THEN Enemy_receive_damage(w1, reflected_damage, TRUE)
        ELSE w1

\* Borge.receive_damage
Borge_receive_damage(w, damage, is_crit, r) ==
    LET reduced == IF is_crit
                   THEN (damage * (100 - cfg.attributes.weakspot_analysis * 11)) \div 100
                   ELSE damage
        rd == Hunter_receive_damage(w.h, reduced, r.evade)
        helltouch_effect == IF IsBossStage(rd.h.current_stage) THEN 1 ELSE 10
        reflected_damage ==
            (rd.final * cfg.attributes.helltouch_barrier * 8 * helltouch_effect) \div 1000
        w1 == [w EXCEPT !.h = rd.h]
    IN  IF ~Hunter_is_dead(rd.h) /\ rd.final > 0
        THEN Enemy_receive_damage(w1, reflected_damage, TRUE)
        ELSE w1

\* Borge.regen_hp
Borge_regen_hp(h) ==
    LET inhaler_contrib == (cfg.attributes.lifedrain_inhalers * 8 * Hunter_missing_hp(h)) \div 10000
    IN  Hunter_heal_hp(h, cfg.regen + inhaler_contrib, "regen")

\* Borge.apply_stun
Borge_apply_stun(w, is_boss) ==
    LET stun_duration == IF is_boss THEN cfg.talents.impeccable_impacts * 50
                         ELSE cfg.talents.impeccable_impacts * 100
    IN  [Enemy_stun(w, stun_duration) EXCEPT
             !.h.total_stuntime_inflicted = @ + stun_duration]

\* a faulty apply_trample, for comparison: the last of the enemies within the
\* trample power is spared
Borge_apply_trample_short(h, es) ==
    LET alive_index == {i \in 1..Len(es) : ~Enemy_is_dead(es[i])}
        trample_power == Min(Hunter_power(h) \div es[1].max_hp, TrampleCap)
        hit == IF alive_index # {} /\ trample_power > 1
               THEN {i \in alive_index :
                        Cardinality({j \in alive_index : j < i}) < trample_power - 1}
               ELSE {}
    IN  [enemies |-> [i \in 1..Len(es) |-> IF i \in hit THEN Enemy_kill(es[i]) ELSE es[i]],
         trample_kills |-> Cardinality(hit)]

\* a faulty apply_trample, for comparison: a trample power of 1 tramples too
Borge_apply_trample_eager(h, es) ==
    LET alive_index == {i \in 1..Len(es) : ~Enemy_is_dead(es[i])}
        trample_power == Min(Hunter_power(h) \div es[1].max_hp, TrampleCap)
        hit == IF alive_index # {} /\ trample_power > 0
               THEN {i \in alive_index :
                        Cardinality({j \in alive_index : j < i}) < trample_power}
               ELSE {}
    IN  [enemies |-> [i \in 1..Len(es) |-> IF i \in hit THEN Enemy_kill(es[i]) ELSE es[i]],
         trample_kills |-> Cardinality(hit)]

\* Borge.apply_trample: the enemies after the trample, and the number killed
Borge_apply_trample(h, es) ==
    LET alive_index == {i \in 1..Len(es) : ~Enemy_is_dead(es[i])}
        trample_power == Min(Hunter_power(h) \div es[1].max_hp, TrampleCap)
        hit == IF alive_index # {} /\ trample_power > 1
               THEN {i \in alive_index :
                        Cardinality({j \in alive_index : j < i}) < trample_power}
               ELSE {}
    IN  [enemies |-> [i \in 1..Len(es) |-> IF i \in hit THEN Enemy_kill(es[i]) ELSE es[i]],
         trample_kills |-> Cardinality(hit)]

OzzyRolls == [trick : Rolls, ms : Rolls, stun : Rolls, echo : Rolls,
              cripple : Rolls, potion : Rolls]

\* Ozzy.on_kill, with Hunter.on_kill's loot left out
Ozzy_on_kill(h, r) ==
    LET ua == cfg.talents.unfair_advantage
        potion_healing == (cfg.max_hp * ua * 2) \div 100
    IN  IF r.potion < Hunter_effect_chance(h) /\ ua > 0
        THEN [Hunter_heal_hp(h, potion_healing, "potion") EXCEPT
                  !.total_potion = @ + potion_healing,
                  !.total_effect_procs = @ + 1,
                  !.empowered_regen = @ + 5]
        ELSE h

\* Ozzy.attack, a normal attack: the rolls, then damage = power
Ozzy_attack_normal(w, r) ==
    LET h0 == w.h
        h1 == IF r.trick < Hunter_effect_chance(h0) \div 2 /\ cfg.talents.tricksters_boon > 0
              THEN [h0 EXCEPT !.trickster_charges = @ + 1,
                              !.total_effect_procs = @ + 1]
              ELSE h0
        ms == r.ms < Hunter_special_chance(h1)
        h2 == IF ms THEN [h1 EXCEPT !.attack_queue = Append(@, "(MS)")] ELSE h1
        q2 == IF ms THEN hpush(w.q, TriggeredEvent(1, "hunter_special")) ELSE w.q
        stuns == r.stun < Hunter_effect_chance(h2) /\ cfg.talents.thousand_needles > 0
        h3 == IF stuns THEN [h2 EXCEPT !.total_effect_procs = @ + 1] ELSE h2
        q3 == IF stuns THEN hpush(q2, TriggeredEvent(0, "stun")) ELSE q2
        echo == r.echo < Hunter_effect_chance(h3) \div 2 /\ cfg.talents.echo_bullets > 0
        h4 == IF echo THEN [h3 EXCEPT !.attack_queue = Append(@, "(ECHO)")] ELSE h3
        q4 == IF echo THEN hpush(q3, TriggeredEvent(2, "hunter_special")) ELSE q3
    IN  [w |-> [h |-> [h4 EXCEPT !.total_attacks = @ + 1], e |-> w.e, q |-> q4],
         damage |-> Hunter_power(h4)]

\* a faulty triggered attack, for comparison: attack_queue.pop() takes the
\* type queued last
Ozzy_attack_triggered_last(w, r) ==
    LET atk_type == w.h.attack_queue[Len(w.h.attack_queue)]
        h1 == [w.h EXCEPT !.attack_queue = SubSeq(@, 1, Len(@) - 1)]
        ms == atk_type = "(ECHO)" /\ r.ms < Hunter_special_chance(h1)
        h2 == IF ms THEN [h1 EXCEPT !.attack_queue = Append(@, "(ECHO-MS)")] ELSE h1
        q2 == IF ms THEN hpush(w.q, TriggeredEvent(3, "hunter_special")) ELSE w.q
    IN  [w |-> [h |-> h2, e |-> w.e, q |-> q2],
         damage |-> IF atk_type = "(ECHO)"
                    THEN (Hunter_power(h1) * cfg.talents.echo_bullets * 5) \div 100
                    ELSE (Hunter_power(h1) * cfg.special_damage) \div 100]

\* a faulty triggered attack, for comparison: the sub-attack rolls for a stun
\* and is counted as an attack, as the main attack is
Ozzy_attack_triggered_stuns(w, r) ==
    LET atk_type == Head(w.h.attack_queue)
        h1 == [w.h EXCEPT !.attack_queue = Tail(@), !.total_attacks = @ + 1]
        ms == atk_type = "(ECHO)" /\ r.ms < Hunter_special_chance(h1)
        h2 == IF ms THEN [h1 EXCEPT !.attack_queue = Append(@, "(ECHO-MS)")] ELSE h1
        q2 == IF ms THEN hpush(w.q, TriggeredEvent(3, "hunter_special")) ELSE w.q
        stuns == r.stun < Hunter_effect_chance(h2) /\ cfg.talents.thousand_needles > 0
        q3 == IF stuns THEN hpush(q2, TriggeredEvent(0, "stun")) ELSE q2
    IN  [w |-> [h |-> h2, e |-> w.e, q |-> q3],
         damage |-> IF atk_type = "(ECHO)"
                    THEN (Hunter_power(h1) * cfg.talents.echo_bullets * 5) \div 100
                    ELSE (Hunter_power(h1) * cfg.special_damage) \div 100]

\* Ozzy.attack, a triggered attack: the head of attack_queue decides
Ozzy_attack_triggered(w, r) ==
    LET atk_type == Head(w.h.attack_queue)
        h1 == [w.h EXCEPT !.attack_queue = Tail(@)]
        ms == atk_type = "(ECHO)" /\ r.ms < Hunter_special_chance(h1)
        h2 == IF ms THEN [h1 EXCEPT !.attack_queue = Append(@, "(ECHO-MS)")] ELSE h1
        q2 == IF ms THEN hpush(w.q, TriggeredEvent(3, "hunter_special")) ELSE w.q
    IN  [w |-> [h |-> h2, e |-> w.e, q |-> q2],
         damage |-> IF atk_type = "(ECHO)"
                    THEN (Hunter_power(h1) * cfg.talents.echo_bullets * 5) \div 100
                    ELSE (Hunter_power(h1) * cfg.special_damage) \div 100]

\* Ozzy.attack
Ozzy_attack(w, r) ==
    LET resolve(a) ==
            LET omen_effect == IF IsBossStage(a.w.h.current_stage) THEN 1 ELSE 10
                omen_damage ==
                    (a.w.e.hp * cfg.talents.omen_of_decay * 8 * omen_effect) \div 10000
                omen_final == a.damage + omen_damage
                cripple_damage ==
                    (omen_final * (100 + a.w.h.crippling_on_target * 3)) \div 100
                w1 == Enemy_receive_damage([a.w EXCEPT !.h.crippling_on_target = 0],
                                         cripple_damage, FALSE)
                h2 == Hunter_heal_hp(w1.h, (a.damage * cfg.lifesteal) \div 100, "steal")
                cs == cfg.talents.crippling_shots
                h3 == IF r.cripple < Hunter_effect_chance(h2) /\ cs > 0
                      THEN [h2 EXCEPT !.crippling_on_target = @ + cs,
                                      !.total_effect_procs = @ + 1]
                      ELSE h2
                h4 == IF Enemy_is_dead(w1.e) THEN Ozzy_on_kill(h3, r) ELSE h3
            IN  [h |-> h4, e |-> w1.e, q |-> w1.q]
    IN  resolve(IF w.h.attack_queue = <<>> THEN Ozzy_attack_normal(w, r)
                ELSE Ozzy_attack_triggered(w, r))

\* Ozzy.receive_damage
Ozzy_receive_damage(w, damage, is_crit, r) ==
    IF w.h.trickster_charges > 0
    THEN [w EXCEPT !.h.trickster_charges = @ - 1]
    ELSE LET rd == Hunter_receive_damage(w.h, damage, r.evade)
             dod == cfg.attributes.dance_of_dashes
         IN  IF is_crit /\ dod > 0 /\ r.dod < dod * 150
             THEN [w EXCEPT !.h = [rd.h EXCEPT !.trickster_charges = @ + 1,
                                               !.total_effect_procs = @ + 1]]
             ELSE [w EXCEPT !.h = rd.h]

\* Ozzy.regen_hp
Ozzy_regen_hp(h) ==
    IF h.empowered_regen > 0
    THEN Hunter_heal_hp([h EXCEPT !.empowered_regen = @ - 1],
                (cfg.regen * (100 + cfg.attributes.vectid_elixir * 15)) \div 100,
                "regen")
    ELSE Hunter_heal_hp(h, cfg.regen, "regen")

\* Ozzy.apply_stun
Ozzy_apply_stun(w, is_boss) ==
    LET stun_duration == IF is_boss THEN cfg.talents.thousand_needles * 25
                         ELSE cfg.talents.thousand_needles * 50
    IN  [Enemy_stun(w, stun_duration) EXCEPT
             !.h.total_stuntime_inflicted = @ + stun_duration]

-----------------------------------------------------------------------------
(* Dispatch through the hunter's class *)

Hunter_attack(w) ==
    IF cfg.cls = "Borge" THEN {Borge_attack(w, r) : r \in BorgeRolls}
    ELSE {Ozzy_attack(w, r) : r \in OzzyRolls}

Hunter_regen_hp(h) == IF cfg.cls = "Borge" THEN Borge_regen_hp(h) ELSE Ozzy_regen_hp(h)

Hunter_apply_stun(w, is_boss) ==
    IF cfg.cls = "Borge" THEN Borge_apply_stun(w, is_boss) ELSE Ozzy_apply_stun(w, is_boss)

EnemyRolls == [ecrit : Rolls, evade : Rolls, dod : Rolls]

\* Crit_Unit.attack of the enemy: the crit roll, then hunter.receive_damage
Enemy_attack(w, r) ==
    LET is_crit == r.ecrit < w.e.special_chance
        damage == IF is_crit THEN (w.e.power * w.e.special_damage) \div 100
                  ELSE w.e.power
    IN  IF cfg.cls = "Borge" THEN Borge_receive_damage(w, damage, is_crit, r)
        ELSE Ozzy_receive_damage(w, damage, is_crit, r)

Enemy_attacks(w) == {Enemy_attack(w, r) : r \in EnemyRolls}

\* Hunter.get_results, the fields the model carries
Hunter_get_results(h) ==
    [final_stage |-> h.current_stage, kills |-> h.total_kills,
     revive_log |-> h.revive_log, attacks |-> h.total_attacks,
     damage_taken |-> h.total_taken, regenerated_hp |-> h.total_regen,
     attacks_suffered |-> h.total_attacks_suffered,
     lifesteal |-> h.total_lifesteal, evades |-> h.total_evades,
     mitigated_damage |-> h.total_mitigated,
     effect_procs |-> h.total_effect_procs,
     stun_duration_inflicted |-> h.total_stuntime_inflicted]

\* the value of `result` before run() has returned
NoResult == [final_stage |-> -1, elapsed_time |-> -1]

-----------------------------------------------------------------------------
(* SimulationManager: the batch runner *)

\* run() and compare_against() are called at most this many times on one manager
MaxCalls == 2

\* the `repetitions` argument ranges over 1..MaxRepetitions
MaxRepetitions == 2

\* a run ends on one of the stages 0..MaxFinalStage
MaxFinalStage == 1

\* the build configuration files; the last one names a hunter that does not exist
ConfigPaths == {"borge.yaml", "ozzy.yaml", "knox.yaml"}

\* cfg["meta"]["hunter"].lower() of each file
MetaHunter(path) ==
    CASE path = "borge.yaml" -> "borge"
      [] path = "ozzy.yaml" -> "ozzy"
      [] OTHER -> "knox"

\* the `num_processes` argument: the default, zero and a pool of two
ProcessCounts == {-1, 0, 2}

NoPath == "none"

NoException == [type |-> "none", context |-> <<>>]

\* the exception of a run: it is raised inside Simulation.run, which knows
\* neither the configuration path nor the index of the run in the batch
RunException == [type |-> "ValueError", context |-> <<>>]

\* the match statement of __run_sims falling through to `case _`
UnknownHunter == [type |-> "ValueError", context |-> <<"Unknown hunter type">>]

NoRecord == [config |-> NoPath, final_stage |-> -1]

\* Simulation(hunter_class(config_path)).run(): the record of one run, or an
\* exception; `config` notes which configuration the record was produced from
sim_worker(config_path) ==
    {[record |-> [config |-> config_path, final_stage |-> s],
      exception |-> NoException] : s \in 0..MaxFinalStage}
    \cup {[record |-> NoRecord, exception |-> RunException]}

PendingRun == [state |-> "pending", record |-> NoRecord, exception |-> NoException]

NoRes == [hunter |-> "none", config |-> <<>>, final_stage |-> <<>>]

NoBatch ==
    [pc |-> "idle", caller |-> "none", repetitions |-> 0, num_processes |-> 0,
     compare_path |-> NoPath, done |-> 0, calls |-> 0, failed |-> 0]

\* the manager's variables while no manager is in use
NoManager ==
    /\ hunter_config_path = NoPath
    /\ results = <<>>
    /\ batch = NoBatch
    /\ futures = <<>>
    /\ res = NoRes
    /\ res_c = NoRes
    /\ error = NoException

\* Unit.__init__ and Defence_Unit.__init__ of units.py; `ticks` counts the
\* regen ticks applied and `stuns` the calls of stun
Unit_init(cls, hp, speed, regen, damage_reduction, evade_chance) ==
    [cls |-> cls, max_hp |-> hp, hp |-> hp, speed |-> speed, regen |-> regen,
     stun_duration |-> 0, total_regen |-> 0, elapsed_time |-> 0,
     damage_reduction |-> damage_reduction, evade_chance |-> evade_chance,
     ticks |-> 0, stuns |-> 0]

\* a Unit of units.py before any is constructed
NoUnit == Unit_init("none", 0, 0, 0, 0, 0)

\* no method applied yet
NoArguments == [op |-> "none", n |-> 0, value |-> 0, source |-> "", roll |-> 0]

NoReturn == [value |-> 0, exception |-> "none"]

\* the variables of a method applied on its own while none is
NoCall ==
    /\ call = NoArguments
    /\ ret = NoReturn
    /\ unit = NoUnit

\* __run_sims, `# prepare results`: the records turned into one list per key
prepare_results(hunter_class, rs) ==
    [hunter |-> hunter_class,
     config |-> [i \in 1..Len(rs) |-> rs[i].config],
     final_stage |-> [i \in 1..Len(rs) |-> rs[i].final_stage]]

-----------------------------------------------------------------------------
(* Simulation *)

\* Simulation.__init__ after the hunter was built from one of the
\* configurations `builds`
InitWith(builds) ==
    /\ cfg \in builds
    /\ hunter = Hunter_init(cfg)
    /\ current_stage = -1
    /\ elapsed_time = 0
    /\ queue = <<>>
    /\ enemies = <<>>
    /\ enemy = NoEnemy
    /\ pc = "init"
    /\ result = NoResult
    /\ dispatched = NoEvent
    /\ n_dispatched = 0
    /\ stages_completed = 0
    /\ wave_size = 0
    /\ wave_dead = 0
    /\ spawn_input = -1
    /\ NoManager
    /\ NoCall

Init == InitWith(Builds)

\* a faulty regen event, for comparison: the ticks come five seconds apart,
\* the first after five seconds
regen_event_slow(time) == <<(time + 1) * 5 * Ms, 3, "regen">>

\* a faulty regen event, for comparison: queued a second after elapsed_time
regen_event_late(time) == <<(time + 1) * Ms, 3, "regen">>

\* the tuple (self.elapsed_time, 3, 'regen') of lines 383 and 426
regen_event(time) == <<time * Ms, 3, "regen">>

\* simulate_combat, lines 379-383: the counters are reset and the first hunter
\* attack and the first regen tick are queued
SimulateCombatStart ==
    /\ pc = "init"
    /\ LET sp == Hunter_speed(hunter)
       IN  /\ hunter' = sp.h
           /\ queue' = hpush(hpush(<<>>, <<sp.speed, 1, "hunter">>),
                             regen_event(0))
    /\ current_stage' = 0
    /\ elapsed_time' = 0
    /\ pc' = "stage"
    /\ UNCHANGED <<cfg, enemies, enemy, result, dispatched, n_dispatched,
                   stages_completed, wave_size, wave_dead, spawn_input, manager_vars, call_vars>>

\* the head of the outer loop, lines 384-387: a live hunter gets the next
\* wave; with a dead hunter the loop ends and line 433 raises
SpawnEnemies ==
    /\ pc = "stage"
    /\ IF Hunter_is_dead(hunter)
       THEN /\ pc' = "raised"
            /\ UNCHANGED <<enemies, wave_size, wave_dead>>
       ELSE /\ enemies' = spawn_enemies(cfg, current_stage)
            /\ wave_size' = Len(spawn_enemies(cfg, current_stage))
            /\ wave_dead' = 0
            /\ pc' = "wave"
    /\ UNCHANGED <<cfg, hunter, current_stage, elapsed_time, queue, enemy,
                   result, dispatched, n_dispatched, stages_completed, spawn_input, manager_vars, call_vars>>

\* a faulty trample branch, for comparison: only a wave of which no enemy has
\* died yet is trampled
Tramples_full_wave ==
    /\ enemies # <<>>
    /\ cfg.mods.trample
    /\ ~enemies[1].is_boss
    /\ wave_dead = 0
    /\ Borge_apply_trample(hunter, enemies).trample_kills > 0

\* whether the trample branch of lines 391-399 is taken
Tramples ==
    /\ enemies # <<>>
    /\ cfg.mods.trample
    /\ ~enemies[1].is_boss
    /\ Borge_apply_trample(hunter, enemies).trample_kills > 0

\* lines 391-399: the trampled enemies are counted and removed
Trample ==
    /\ pc = "wave"
    /\ Tramples
    /\ LET t == Borge_apply_trample(hunter, enemies)
       IN  /\ hunter' = [hunter EXCEPT !.total_kills = @ + t.trample_kills,
                                       !.total_attacks = @ + 1]
           /\ enemies' = SelectSeq(t.enemies, LAMBDA e : ~Enemy_is_dead(e))
           /\ wave_dead' = wave_dead + t.trample_kills
    /\ UNCHANGED <<cfg, current_stage, elapsed_time, queue, enemy, pc, result,
                   dispatched, n_dispatched, stages_completed, wave_size, spawn_input, manager_vars, call_vars>>

\* lines 400-402: the next enemy leaves the wave and queues its first attack
NextEnemy ==
    /\ pc = "wave"
    /\ enemies # <<>>
    /\ ~Tramples
    /\ enemy' = Head(enemies)
    /\ enemies' = Tail(enemies)
    /\ queue' = Enemy_queue_initial_attack(queue, Head(enemies), elapsed_time)
    /\ pc' = "combat"
    /\ UNCHANGED <<cfg, hunter, current_stage, elapsed_time, result, dispatched,
                   n_dispatched, stages_completed, wave_size, wave_dead, spawn_input, manager_vars, call_vars>>

\* Boss.attack: the attack, after which the boss attacks faster
Boss_attack(w, r) == [Enemy_attack(w, r) EXCEPT !.e.speed = @ - 35]

\* Boss.attack_special (spec): an attack on the second track
Boss_attack_special(w, r) == Enemy_attack(w, r)

\* a faulty hunter case, for comparison: the attack is not queued again
hunter_case_once(ev, w) == Hunter_attack(w)

\* case 'hunter', lines 408-410
hunter_case(ev, w) ==
    {LET sp == Hunter_speed(w2.h)
     IN  [w2 EXCEPT !.h = sp.h,
                    !.q = hpush(w2.q, <<ev[1] + sp.speed, 1, "hunter">>)]
     : w2 \in Hunter_attack(w)}

\* a faulty enemy case, for comparison: the next attack is queued without
\* the check of line 413
enemy_case_always(ev, w) ==
    {[w2 EXCEPT !.q = hpush(@, <<ev[1] + w2.e.speed, 2, "enemy">>)]
     : w2 \in {IF w.e.is_boss THEN Boss_attack(w, r) ELSE Enemy_attack(w, r)
               : r \in EnemyRolls}}

\* case 'enemy', lines 411-414
enemy_case(ev, w) ==
    {IF Enemy_is_dead(w2.e) THEN w2
     ELSE [w2 EXCEPT !.q = hpush(@, <<ev[1] + w2.e.speed, 2, "enemy">>)]
     : w2 \in {IF w.e.is_boss THEN Boss_attack(w, r) ELSE Enemy_attack(w, r)
               : r \in EnemyRolls}}

\* case 'enemy_special', lines 419-422
enemy_special_case(ev, w) ==
    {IF Enemy_is_dead(w2.e) THEN w2
     ELSE [w2 EXCEPT !.q = hpush(@, <<ev[1] + w2.e.speed2, 2, "enemy_special">>)]
     : w2 \in {Boss_attack_special(w, r) : r \in EnemyRolls}}

\* case 'regen', lines 423-425, the two regen_hp calls
regen_case(ev, w) == {[w EXCEPT !.h = Hunter_regen_hp(@), !.e = Enemy_regen_hp(@)]}

Kinds == {"hunter", "enemy", "stun", "hunter_special", "enemy_special", "regen"}

\* the match of lines 407-429 on the popped event: the worlds it can produce
Handle(ev, w) ==
    CASE ev[3] = "hunter" -> hunter_case(ev, w)
      [] ev[3] = "enemy" -> enemy_case(ev, w)
      [] ev[3] = "stun" -> {Hunter_apply_stun(w, w.e.is_boss)}
      [] ev[3] = "hunter_special" -> Hunter_attack(w)
      [] ev[3] = "enemy_special" -> enemy_special_case(ev, w)
      [] ev[3] = "regen" -> regen_case(ev, w)
      [] OTHER -> {w}

\* a faulty `case _`, for comparison: an unknown action is passed over
case_default_pass(action) == "combat"

\* lines 428-429, `case _: raise ValueError`, against the cases before it: where
\* simulate_combat is after the match
case_default(action) == IF action \in Kinds THEN "combat" ELSE "raised"

\* one iteration of the combat loop, lines 404-429: the smallest event is
\* popped and handled; popping an empty queue or an unknown action raises.
\* The loop itself has no limit; the model follows it up to the time `limit`.
DispatchWithin(limit) ==
    /\ pc = "combat"
    /\ ~Enemy_is_dead(enemy)
    /\ ~Hunter_is_dead(hunter)
    /\ elapsed_time < limit
    /\ IF queue = <<>>
       THEN /\ pc' = "raised"
            /\ UNCHANGED <<hunter, enemy, queue, elapsed_time, dispatched, n_dispatched>>
       ELSE LET p == hpop(queue)
            IN  \E w2 \in Handle(p.ev, [h |-> hunter, e |-> enemy, q |-> p.q]) :
                    /\ hunter' = w2.h
                    /\ enemy' = w2.e
                    /\ IF p.ev[3] = "regen"
                       THEN /\ elapsed_time' = elapsed_time + 1
                            /\ queue' = hpush(w2.q, regen_event(elapsed_time + 1))
                       ELSE /\ elapsed_time' = elapsed_time
                            /\ queue' = w2.q
                    /\ dispatched' = p.ev
                    /\ n_dispatched' = n_dispatched + 1
                    /\ pc' = case_default(p.ev[3])
    /\ UNCHANGED <<cfg, current_stage, enemies, result, stages_completed,
                   wave_size, wave_dead, spawn_input, manager_vars, call_vars>>

Dispatch == DispatchWithin(MaxTime)

\* a faulty CombatExit, for comparison: the return of lines 430-431 is left out
CombatExit_on ==
    /\ pc = "combat"
    /\ Enemy_is_dead(enemy) \/ Hunter_is_dead(hunter)
    /\ pc' = "wave"
    /\ wave_dead' = wave_dead + 1
    /\ UNCHANGED <<cfg, hunter, current_stage, elapsed_time, queue, enemies, enemy,
                   result, dispatched, n_dispatched, stages_completed, wave_size,
                   spawn_input, manager_vars, call_vars>>

\* a faulty CombatExit, for comparison: the triggered events that the dead
\* enemy left pending are dropped from the queue
CombatExit_purges ==
    /\ pc = "combat"
    /\ Enemy_is_dead(enemy) \/ Hunter_is_dead(hunter)
    /\ IF Hunter_is_dead(hunter)
       THEN /\ pc' = "returned"
            /\ wave_dead' = wave_dead
       ELSE /\ pc' = "wave"
            /\ wave_dead' = wave_dead + 1
    /\ queue' = RemoveKinds(queue, {"stun", "hunter_special"})
    /\ UNCHANGED <<cfg, hunter, current_stage, elapsed_time, enemies, enemy,
                   result, dispatched, n_dispatched, stages_completed, wave_size,
                   spawn_input, manager_vars, call_vars>>

\* a faulty CombatExit, for comparison: the return of lines 430-431 is taken
\* only by a hunter that never revived
CombatExit_unrevived ==
    /\ pc = "combat"
    /\ Enemy_is_dead(enemy) \/ Hunter_is_dead(hunter)
    /\ IF Hunter_is_dead(hunter) /\ hunter.times_revived = 0
       THEN /\ pc' = "returned"
            /\ wave_dead' = wave_dead
       ELSE /\ pc' = "wave"
            /\ wave_dead' = wave_dead + 1
    /\ UNCHANGED <<cfg, hunter, current_stage, elapsed_time, queue, enemies, enemy,
                   result, dispatched, n_dispatched, stages_completed, wave_size,
                   spawn_input, manager_vars, call_vars>>

\* the combat loop ends, lines 404 and 430-431: with a dead hunter
\* simulate_combat returns, otherwise the wave goes on
CombatExit ==
    /\ pc = "combat"
    /\ Enemy_is_dead(enemy) \/ Hunter_is_dead(hunter)
    /\ IF Hunter_is_dead(hunter)
       THEN /\ pc' = "returned"
            /\ wave_dead' = wave_dead
       ELSE /\ pc' = "wave"
            /\ wave_dead' = wave_dead + 1
    /\ UNCHANGED <<cfg, hunter, current_stage, elapsed_time, queue, enemies, enemy,
                   result, dispatched, n_dispatched, stages_completed, wave_size,
                   spawn_input, manager_vars, call_vars>>

\* a faulty Hunter.complete_stage, for comparison: the counter is left alone
Hunter_stage_kept(h) == h

\* Hunter.complete_stage
Hunter_complete_stage(h) == [h EXCEPT !.current_stage = @ + 1]

\* line 432 after the wave loop has ended: Simulation.complete_stage
CompleteStage ==
    /\ pc = "wave"
    /\ enemies = <<>>
    /\ current_stage < MaxStage
    /\ current_stage' = current_stage + 1
    /\ hunter' = Hunter_complete_stage(hunter)
    /\ stages_completed' = stages_completed + 1
    /\ pc' = "stage"
    /\ UNCHANGED <<cfg, elapsed_time, queue, enemies, enemy, result, dispatched,
                   n_dispatched, wave_size, wave_dead, spawn_input, manager_vars, call_vars>>

\* run, line 367, after simulate_combat has returned
RunReturn ==
    /\ pc = "returned"
    /\ result' = [elapsed_time |-> elapsed_time] @@ Hunter_get_results(hunter)
    /\ pc' = "done"
    /\ UNCHANGED <<cfg, hunter, current_stage, elapsed_time, queue, enemies, enemy,
                   dispatched, n_dispatched, stages_completed, wave_size, wave_dead,
                   spawn_input, manager_vars, call_vars>>

Next ==
    \/ SimulateCombatStart
    \/ SpawnEnemies
    \/ Trample
    \/ NextEnemy
    \/ Dispatch
    \/ CombatExit
    \/ CompleteStage
    \/ RunReturn

Spec == Init /\ [][Next]_vars

\* the condition of the combat loop, line 404, within the model's time bound:
\* Dispatch is enabled exactly here
DispatchEnabled ==
    /\ pc = "combat"
    /\ ~Enemy_is_dead(enemy)
    /\ ~Hunter_is_dead(hunter)
    /\ elapsed_time < MaxTime

\* weak fairness of Dispatch, written out with its enabling condition: the
\* loop does not stop while its condition holds
FairDispatch ==
    []<>(~DispatchEnabled) \/ []<><<n_dispatched' = n_dispatched + 1>>_vars

\* run() is a sequential program: the one step that can be taken is taken
FairSpec ==
    /\ Spec
    /\ WF_vars(SimulateCombatStart)
    /\ WF_vars(SpawnEnemies)
    /\ WF_vars(Trample)
    /\ WF_vars(NextEnemy)
    /\ FairDispatch
    /\ WF_vars(CombatExit)
    /\ WF_vars(CompleteStage)
    /\ WF_vars(RunReturn)

-----------------------------------------------------------------------------
(* spawn_enemies applied on its own to every stage up to MaxSpawnStage *)

SpawnInit ==
    /\ cfg \in Builds
    /\ hunter = Hunter_init(cfg)
    /\ spawn_input \in 0..MaxSpawnStage
    /\ current_stage = -1
    /\ elapsed_time = 0
    /\ queue = <<>>
    /\ enemies = <<>>
    /\ enemy = NoEnemy
    /\ pc = "spawn"
    /\ result = NoResult
    /\ dispatched = NoEvent
    /\ n_dispatched = 0
    /\ stages_completed = 0
    /\ wave_size = 0
    /\ wave_dead = 0
    /\ NoManager
    /\ NoCall

SpawnApply ==
    /\ pc = "spawn"
    /\ current_stage' = spawn_input
    /\ enemies' = spawn_enemies(cfg, spawn_input)
    /\ wave_size' = Len(spawn_enemies(cfg, spawn_input))
    /\ pc' = "spawned"
    /\ UNCHANGED <<cfg, hunter, elapsed_time, queue, enemy, result, dispatched,
                   n_dispatched, stages_completed, wave_dead, spawn_input, manager_vars, call_vars>>

SpawnNext == SpawnApply

SpawnSpec == SpawnInit /\ [][SpawnNext]_vars

-----------------------------------------------------------------------------
(* The combat loop handed an event of a kind it has no case for *)

\* an action string that the match of simulate_combat does not list
UnknownKinds == {"trample"}

\* hpush(self.sim.queue, ...) as the hunter classes call it, with an action
\* string outside the match: now (timestamp 0) or half a second from now
PushUnknown ==
    /\ pc = "combat"
    /\ \A i \in 1..Len(queue) : queue[i][3] \in Kinds
    /\ \E action \in UnknownKinds, priority \in 0..3,
          timestamp \in {0, elapsed_time * Ms + Ms \div 2} :
        queue' = hpush(queue, <<timestamp, priority, action>>)
    /\ UNCHANGED <<cfg, hunter, current_stage, elapsed_time, enemies, enemy, pc,
                   result, dispatched, n_dispatched, stages_completed, wave_size,
                   wave_dead, spawn_input, manager_vars, call_vars>>

QueueNext == Next \/ PushUnknown

QueueSpec == Init /\ [][QueueNext]_vars

-----------------------------------------------------------------------------
(* Hunter.heal_hp and Hunter.receive_damage applied on their own *)

\* so many calls are applied to one hunter
MaxOps == 2

\* the source tags handed to heal_hp: those of the callers, spelled as the
\* callers spell them and otherwise, and tags of no case
Sources == {"regen", "steal", "loth", "potion", "REGEN", "Potion",
            "lifesteal", "life_of_the_hunt", "trample"}

\* a hunter in the middle of a run: alive, at some hp up to max_hp
HunterInit ==
    /\ cfg \in Builds
    /\ \E hp \in {1, cfg.max_hp \div 2, cfg.max_hp} :
        hunter = [Hunter_init(cfg) EXCEPT !.hp = hp]
    /\ current_stage = 0
    /\ elapsed_time = 0
    /\ queue = <<>>
    /\ enemies = <<>>
    /\ enemy = NoEnemy
    /\ pc = "call"
    /\ result = NoResult
    /\ dispatched = NoEvent
    /\ n_dispatched = 0
    /\ stages_completed = 0
    /\ wave_size = 0
    /\ wave_dead = 0
    /\ spawn_input = -1
    /\ NoManager
    /\ NoCall

\* hunter.heal_hp(value, source)
HealHp ==
    /\ pc = "call"
    /\ call.n < MaxOps
    /\ ~Hunter_is_dead(hunter)
    /\ \E value \in {0, cfg.regen, cfg.max_hp}, source \in Sources :
        /\ hunter' = Hunter_heal_hp(hunter, value, source)
        /\ call' = [op |-> "heal_hp", n |-> call.n + 1, value |-> value,
                    source |-> source, roll |-> 0]
        /\ ret' = [value |-> 0,
                   exception |-> IF heal_hp_raises(source) THEN "ValueError" ELSE "none"]
        /\ pc' = IF heal_hp_raises(source) THEN "raised" ELSE "call"
    /\ UNCHANGED <<cfg, current_stage, elapsed_time, queue, enemies, enemy, result,
                   dispatched, n_dispatched, stages_completed, wave_size, wave_dead,
                   spawn_input, manager_vars, unit>>

\* hunter.receive_damage(damage), Hunter's own method
ReceiveDamage ==
    /\ pc = "call"
    /\ call.n < MaxOps
    /\ ~Hunter_is_dead(hunter)
    /\ \E damage \in {0, 1, cfg.max_hp \div 3, cfg.max_hp}, roll \in Rolls :
        LET rd == Hunter_receive_damage(hunter, damage, roll)
        IN  /\ hunter' = rd.h
            /\ call' = [op |-> "receive_damage", n |-> call.n + 1, value |-> damage,
                        source |-> "", roll |-> roll]
            /\ ret' = [value |-> rd.final, exception |-> "none"]
    /\ UNCHANGED <<cfg, current_stage, elapsed_time, queue, enemies, enemy, pc, result,
                   dispatched, n_dispatched, stages_completed, wave_size, wave_dead,
                   spawn_input, manager_vars, unit>>

HunterNext == HealHp \/ ReceiveDamage

HunterSpec == HunterInit /\ [][HunterNext]_vars

-----------------------------------------------------------------------------
(* SimulationManager: run, compare_against and the steps of __run_sims *)

\* the variables of a Simulation while only the manager is looked at
NoSimulation ==
    /\ cfg = BaseBuild("Borge")
    /\ hunter = Hunter_init(cfg)
    /\ current_stage = -1
    /\ elapsed_time = 0
    /\ queue = <<>>
    /\ enemies = <<>>
    /\ enemy = NoEnemy
    /\ pc = "manager"
    /\ result = NoResult
    /\ dispatched = NoEvent
    /\ n_dispatched = 0
    /\ stages_completed = 0
    /\ wave_size = 0
    /\ wave_dead = 0
    /\ spawn_input = -1

\* SimulationManager.__init__
ManagerInit ==
    /\ hunter_config_path \in ConfigPaths
    /\ results = <<>>
    /\ batch = NoBatch
    /\ futures = <<>>
    /\ res = NoRes
    /\ res_c = NoRes
    /\ error = NoException
    /\ NoSimulation
    /\ NoCall

\* __run_sims up to the choice between the pool and the loop: the hunter class
\* is read from the file, the runs are handed to the pool or the loop begins
run_sims_begin(path, repetitions, num_processes, b) ==
    LET b1 == [b EXCEPT !.repetitions = repetitions,
                        !.num_processes = num_processes,
                        !.done = 0, !.failed = 0]
    IN  IF MetaHunter(path) \notin {"borge", "ozzy"}
        THEN [batch |-> [b1 EXCEPT !.pc = "raised"], futures |-> <<>>,
              error |-> UnknownHunter]
        ELSE IF num_processes > 0
        THEN [batch |-> [b1 EXCEPT !.pc = "pool"],
              futures |-> [i \in 1..repetitions |->
                              [PendingRun EXCEPT !.record.config = path]],
              error |-> NoException]
        ELSE [batch |-> [b1 EXCEPT !.pc = "sequential"], futures |-> <<>>,
              error |-> NoException]

\* SimulationManager.run up to the first run of the batch
ManagerRun ==
    /\ batch.pc = "idle"
    /\ batch.calls < MaxCalls
    /\ \E repetitions \in 1..MaxRepetitions, num_processes \in ProcessCounts :
        LET s == run_sims_begin(hunter_config_path, repetitions, num_processes,
                                [batch EXCEPT !.caller = "run", !.calls = @ + 1,
                                              !.compare_path = NoPath])
        IN  /\ batch' = s.batch
            /\ futures' = s.futures
            /\ error' = s.error
    /\ UNCHANGED <<hunter_config_path, results, res, res_c, sim_vars, call_vars>>

\* SimulationManager.compare_against up to the first run of build 1
CompareAgainst ==
    /\ batch.pc = "idle"
    /\ batch.calls < MaxCalls
    /\ \E compare_path \in ConfigPaths, repetitions \in 1..MaxRepetitions,
          num_processes \in ProcessCounts :
        LET s == run_sims_begin(hunter_config_path, repetitions, num_processes,
                                [batch EXCEPT !.caller = "build_1", !.calls = @ + 1,
                                              !.compare_path = compare_path])
        IN  /\ batch' = s.batch
            /\ futures' = s.futures
            /\ error' = s.error
    /\ UNCHANGED <<hunter_config_path, results, res, res_c, sim_vars, call_vars>>

\* one iteration of the sequential loop of __run_sims
SequentialRun ==
    /\ batch.pc = "sequential"
    /\ \E o \in sim_worker(hunter_config_path) :
        IF o.exception # NoException
        THEN /\ error' = o.exception
             /\ batch' = [batch EXCEPT !.pc = "raised", !.failed = batch.done + 1]
             /\ UNCHANGED results
        ELSE /\ results' = Append(results, o.record)
             /\ batch' = [batch EXCEPT !.done = @ + 1,
                                       !.pc = IF batch.done + 1 = batch.repetitions
                                              THEN "prepare" ELSE "sequential"]
             /\ UNCHANGED error
    /\ UNCHANGED <<hunter_config_path, futures, res, res_c, sim_vars, call_vars>>

\* a pool process finishes one of the runs handed to the pool
PoolWorker ==
    /\ batch.pc = "pool"
    /\ \E i \in 1..Len(futures) :
        /\ futures[i].state = "pending"
        /\ \E o \in sim_worker(futures[i].record.config) :
            futures' = [futures EXCEPT ![i] = [state |-> "done", record |-> o.record,
                                               exception |-> o.exception]]
    /\ UNCHANGED <<hunter_config_path, results, batch, res, res_c, error, sim_vars, call_vars>>

\* the runs whose worker raised
Failed(fs) == {i \in 1..Len(fs) : fs[i].exception # NoException}

\* list(e.map(...)) and the end of the `with` block: the results are taken in
\* the order the runs were handed over, the first exception is raised again
PoolCollect ==
    /\ batch.pc = "pool"
    /\ \A i \in 1..Len(futures) : futures[i].state = "done"
    /\ IF Failed(futures) # {}
       THEN LET first == CHOOSE i \in Failed(futures) :
                             \A j \in Failed(futures) : i <= j
            IN  /\ error' = futures[first].exception
                /\ batch' = [batch EXCEPT !.pc = "raised", !.failed = first]
                /\ UNCHANGED results
       ELSE /\ results' = [i \in 1..Len(futures) |-> futures[i].record]
            /\ batch' = [batch EXCEPT !.pc = "prepare", !.done = Len(futures)]
            /\ UNCHANGED error
    /\ UNCHANGED <<hunter_config_path, futures, res, res_c, sim_vars, call_vars>>

\* `# prepare results` and the return of __run_sims to its caller
RunSimsReturn ==
    /\ batch.pc = "prepare"
    /\ LET r == prepare_results(MetaHunter(hunter_config_path), results)
       IN  CASE batch.caller = "run" ->
                    /\ res' = r
                    /\ batch' = [batch EXCEPT !.pc = "idle"]
                    /\ UNCHANGED res_c
             [] batch.caller = "build_1" ->
                    /\ res' = r
                    /\ batch' = [batch EXCEPT !.pc = "build_2"]
                    /\ UNCHANGED res_c
             [] OTHER ->
                    /\ res_c' = r
                    /\ batch' = [batch EXCEPT !.pc = "idle"]
                    /\ UNCHANGED res
    /\ UNCHANGED <<hunter_config_path, results, futures, error, sim_vars, call_vars>>

\* compare_against after build 1: the path is replaced and __run_sims called again
CompareBuild2 ==
    /\ batch.pc = "build_2"
    /\ LET s == run_sims_begin(batch.compare_path, batch.repetitions,
                               batch.num_processes,
                               [batch EXCEPT !.caller = "build_2"])
       IN  /\ batch' = s.batch
           /\ futures' = s.futures
           /\ error' = s.error
    /\ hunter_config_path' = batch.compare_path
    /\ UNCHANGED <<results, res, res_c, sim_vars, call_vars>>

ManagerNext ==
    \/ ManagerRun
    \/ CompareAgainst
    \/ SequentialRun
    \/ PoolWorker
    \/ PoolCollect
    \/ RunSimsReturn
    \/ CompareBuild2

ManagerSpec == ManagerInit /\ [][ManagerNext]_vars

-----------------------------------------------------------------------------
(* Unit and Defence_Unit of units.py, their methods applied on their own *)

\* so many calls are applied to one unit
MaxUnitOps == 3

\* the units of tests/test_units.py, and the boss with an evade chance
Units ==
    {Unit_init("Unit", 900, 4530, 0, 0, 0),
     Unit_init("Unit", 40500, 3936, 784, 0, 0),
     Unit_init("Defence_Unit", 3681000, 7850, 1544, 50, 0),
     Unit_init("Defence_Unit", 3681000, 7850, 1544, 50, 500)}

\* Unit.get_speed
Unit_get_speed(u) ==
    IF u.stun_duration > 0
    THEN (u.speed - u.stun_duration) + u.stun_duration * 2
    ELSE u.speed

\* a faulty Unit.receive_damage, for comparison: the stun outlasts the hit
Unit_receive_damage_stunned(u, damage) == [u EXCEPT !.hp = @ - damage]

\* Unit.receive_damage
Unit_receive_damage(u, damage) == [u EXCEPT !.hp = @ - damage, !.stun_duration = 0]

\* Defence_Unit.receive_damage: [u, final], final the value returned
Defence_Unit_receive_damage(u, damage, roll) ==
    IF roll < u.evade_chance
    THEN [u |-> u, final |-> 0]
    ELSE LET final_damage == (damage * (1000 - u.damage_reduction)) \div 1000
         IN  [u |-> Unit_receive_damage(u, final_damage), final |-> final_damage]

\* Unit.__recursive_regen
RECURSIVE Unit_recursive_regen(_, _)
Unit_recursive_regen(u, ticks) ==
    IF ticks > 0
    THEN LET u1 == IF u.hp + u.regen <= u.max_hp
                   THEN [u EXCEPT !.hp = @ + u.regen, !.total_regen = @ + u.regen,
                                  !.ticks = @ + 1]
                   ELSE [u EXCEPT !.total_regen = @ + (u.max_hp - u.hp),
                                  !.hp = u.max_hp, !.ticks = @ + 1]
         IN  Unit_recursive_regen(u1, ticks - 1)
    ELSE u

\* len(range(math.ceil(a), math.floor(b) + 1)) for times in thousandths
regen_ticks(a, b) ==
    LET first == (a + Ms - 1) \div Ms
        last == b \div Ms
    IN  IF last + 1 > first THEN last + 1 - first ELSE 0

\* Unit.regen_hp(opponent_attack_speed)
Unit_regen_hp(u, opponent_attack_speed) ==
    LET ticks == regen_ticks(u.elapsed_time, u.elapsed_time + opponent_attack_speed)
    IN  Unit_recursive_regen(
            [u EXCEPT !.elapsed_time = @ + opponent_attack_speed], ticks)

\* a faulty Unit.stun, for comparison: a later stun replaces the earlier one
Unit_stun_replaces(u, duration) ==
    [u EXCEPT !.stun_duration = duration, !.stuns = @ + 1]

\* Unit.stun
Unit_stun(u, duration) == [u EXCEPT !.stun_duration = @ + duration, !.stuns = @ + 1]

\* a unit as its constructor leaves it
UnitInit ==
    /\ unit \in Units
    /\ call = NoArguments
    /\ ret = NoReturn
    /\ NoSimulation
    /\ NoManager

\* unit.receive_damage(None, damage)
UnitReceiveDamage ==
    /\ call.n < MaxUnitOps
    /\ \E damage \in {200, 500}, roll \in Rolls :
        /\ call' = [op |-> "receive_damage", n |-> call.n + 1, value |-> damage,
                    source |-> "", roll |-> roll]
        /\ IF unit.cls = "Unit"
           THEN /\ unit' = Unit_receive_damage(unit, damage)
                /\ ret' = NoReturn
           ELSE LET rd == Defence_Unit_receive_damage(unit, damage, roll)
                IN  /\ unit' = rd.u
                    /\ ret' = [value |-> rd.final, exception |-> "none"]
    /\ UNCHANGED <<sim_vars, manager_vars>>

\* unit.stun(duration)
UnitStun ==
    /\ call.n < MaxUnitOps
    /\ \E duration \in {300, 700} :
        /\ call' = [op |-> "stun", n |-> call.n + 1, value |-> duration,
                    source |-> "", roll |-> 0]
        /\ unit' = Unit_stun(unit, duration)
        /\ ret' = NoReturn
    /\ UNCHANGED <<sim_vars, manager_vars>>

\* unit.regen_hp(opponent_attack_speed)
UnitRegenHp ==
    /\ call.n < MaxUnitOps
    /\ \E opponent_attack_speed \in {500, 2000, 4530} :
        /\ call' = [op |-> "regen_hp", n |-> call.n + 1,
                    value |-> opponent_attack_speed, source |-> "", roll |-> 0]
        /\ unit' = Unit_regen_hp(unit, opponent_attack_speed)
        /\ ret' = NoReturn
    /\ UNCHANGED <<sim_vars, manager_vars>>

UnitNext == UnitReceiveDamage \/ UnitStun \/ UnitRegenHp

UnitSpec == UnitInit /\ [][UnitNext]_vars

-----------------------------------------------------------------------------
(* SimulationManager.make_printable on its own: `res` is res_dict, which    *)
(* the method changes in place, and `ret` what it returns                   *)

\* runs in a batch
MaxRuns == 2

\* the records of finished runs, with the keys the model carries; a finished
\* run has dispatched the regen event of time 0, so its elapsed_time is >= 1
RunRecords ==
    [final_stage : {0, BossEvery}, total_loot : {0, 2}, elapsed_time : {1, 3600},
     revive_log : {<<>>, <<1>>, <<1, 1>>}, enrage_log : {<<>>, <<3>>}]

\* __run_sims, `# prepare results`, after pprint_res has popped 'hunter': one
\* list per key of the records
results_dict(rs) ==
    [k \in {"final_stage", "total_loot", "elapsed_time", "revive_log", "enrage_log"}
        |-> [i \in 1..Len(rs) |-> rs[i][k]]]

\* the keys of a record whose values are numbers
ScalarFields == {"final_stage", "total_loot", "elapsed_time"}

\* the keys whose lists hold lists
ListFields == {"revive_log"}

RECURSIVE chain_from_iterable(_)
chain_from_iterable(ls) ==
    IF ls = <<>> THEN <<>> ELSE Head(ls) \o chain_from_iterable(Tail(ls))

RECURSIVE sum(_)
sum(v) == IF v = <<>> THEN 0 ELSE Head(v) + sum(Tail(v))

\* statistics.fmean of a non-empty list, as the fraction num / den
fmean(v) == [num |-> sum(v), den |-> Len(v)]

\* statistics.stdev: the square root of the sample variance var_num / var_den;
\* it raises StatisticsError for fewer than two values
stdev(v) ==
    IF Len(v) < 2 THEN [raises |-> TRUE, var_num |-> 0, var_den |-> 1]
    ELSE [raises |-> FALSE,
          var_num |-> sum([i \in 1..Len(v) |->
                             (Len(v) * v[i] - sum(v)) * (Len(v) * v[i] - sum(v))]),
          var_den |-> Len(v) * Len(v) * (Len(v) - 1)]

\* lines 103-106: enrage_log flattened, the revive stages and the loot per
\* hour added to res_dict (the values drawn make the division exact)
derived_fields(d) ==
    [final_stage |-> d.final_stage,
     total_loot |-> d.total_loot,
     elapsed_time |-> d.elapsed_time,
     revive_log |-> d.revive_log,
     enrage_log |-> chain_from_iterable(d.enrage_log),
     first_revive |->
        LET rs == SelectSeq(d.revive_log, LAMBDA r : r # <<>>)
        IN  [i \in 1..Len(rs) |-> rs[i][1]],
     second_revive |->
        LET rs == SelectSeq(d.revive_log, LAMBDA r : Len(r) > 1)
        IN  [i \in 1..Len(rs) |-> rs[i][2]],
     lph |-> [i \in 1..Len(d.total_loot) |->
                (d.total_loot[i] * 60 * 60) \div d.elapsed_time[i]]]

\* a faulty line 107, for comparison: the statistics also for a single run
several_runs_any(d) == Len(d.final_stage) > 0

\* line 107
several_runs(d) == Len(d.final_stage) > 1

\* lines 108-117: enrage_log leaves res_dict, mean and deviation of every
\* non-empty list of numbers
statistics_branch(d) ==
    LET enrage == d.enrage_log
        rest == [k \in DOMAIN d \ {"enrage_log"} |-> d[k]]
        keys == {k \in DOMAIN rest : rest[k] # <<>> /\ k \notin ListFields}
    IN  IF \E k \in keys : stdev(rest[k]).raises
        THEN [d |-> rest, value |-> 0, exception |-> "StatisticsError"]
        ELSE [d |-> rest,
              value |->
                [avg |-> [k \in keys \cup {"enrage_log"} |->
                            IF k # "enrage_log" THEN fmean(rest[k])
                            ELSE IF Len(enrage) > 1 THEN fmean(enrage)
                            ELSE <<enrage>>],
                 std |-> [k \in keys \cup {"enrage_log"} |->
                            IF k # "enrage_log" THEN stdev(rest[k])
                            ELSE IF Len(enrage) > 1 THEN stdev(enrage)
                            ELSE <<0>>]],
              exception |-> "none"]

\* lines 118-123: the one value of every list of length 1, and 0 for every key
single_branch(d) ==
    [d |-> d,
     value |-> [avg |-> [k \in {j \in DOMAIN d : Len(d[j]) = 1} |-> d[k][1]],
                std |-> [k \in DOMAIN d |-> 0]],
     exception |-> "none"]

\* SimulationManager.make_printable(res_dict): res_dict afterwards, the pair
\* returned and the exception raised
make_printable(res_dict) ==
    LET d == derived_fields(res_dict)
    IN  IF several_runs(d) THEN statistics_branch(d) ELSE single_branch(d)

\* the res_dict of a batch of 1 to MaxRuns finished runs
PrintableInit ==
    /\ res \in {results_dict(rs) :
                  rs \in UNION {[1..n -> RunRecords] : n \in 1..MaxRuns}}
    /\ hunter_config_path = NoPath
    /\ results = <<>>
    /\ batch = NoBatch
    /\ futures = <<>>
    /\ res_c = NoRes
    /\ error = NoException
    /\ NoSimulation
    /\ NoCall

\* avg, std = cls.make_printable(res_dict)
MakePrintable ==
    /\ call.op = "none"
    /\ LET r == make_printable(res)
       IN  /\ res' = r.d
           /\ ret' = [value |-> r.value, exception |-> r.exception]
    /\ call' = [NoArguments EXCEPT !.op = "make_printable", !.n = 1]
    /\ UNCHANGED <<sim_vars, hunter_config_path, results, batch, futures, res_c,
                   error, unit>>

PrintableNext == MakePrintable

PrintableSpec == PrintableInit /\ [][PrintableNext]_vars

-----------------------------------------------------------------------------
(* The head of the wave loop, lines 388-402, on its own *)

\* the power of the hunter, from half the max hp of a stage-0 enemy of
\* Exon-12 up to more than ten times as much
TramplePowers == {450, 900, 1350, 1799, 1800, 2700, 9000, 200000}

\* a wave of which some enemies are left, before a Borge with or without
\* the trample mod
TrampleInit ==
    /\ \E power \in TramplePowers, trample \in BOOLEAN :
        cfg = [BorgeTrample EXCEPT !.power = power, !.mods.trample = trample]
    /\ current_stage \in {0, 1, BossEvery}
    /\ hunter = [Hunter_init(cfg) EXCEPT !.current_stage = current_stage]
    /\ \E n \in 1..WaveSize :
        /\ n <= unit_count(current_stage)
        /\ enemies = SubSeq(spawn_enemies(cfg, current_stage), 1, n)
        /\ wave_dead = unit_count(current_stage) - n
    /\ wave_size = unit_count(current_stage)
    /\ elapsed_time = 0
    /\ queue = <<<<0, 3, "regen">>, <<cfg.speed, 1, "hunter">>>>
    /\ enemy = NoEnemy
    /\ pc = "wave"
    /\ result = NoResult
    /\ dispatched = NoEvent
    /\ n_dispatched = 0
    /\ stages_completed = current_stage
    /\ spawn_input = -1
    /\ NoManager
    /\ NoCall

TrampleNext == Trample \/ NextEnemy

TrampleSpec == TrampleInit /\ [][TrampleNext]_vars

-----------------------------------------------------------------------------
(* Runs of Borge builds whose attacks proc their effects on some attacks and *)
(* not on others.  ProcsSpec follows them for MaxProcsEvents events, which   *)
(* end within the first wave.                                                *)

MaxProcsEvents == 14

ProcsBuilds == {BorgeEmber, BorgeProcs, BorgeEffects, BorgeUntouchable}

ProcsInit == InitWith(ProcsBuilds)

ProcsDispatch == n_dispatched < MaxProcsEvents /\ Dispatch

ProcsNext ==
    \/ SimulateCombatStart
    \/ SpawnEnemies
    \/ NextEnemy
    \/ ProcsDispatch
    \/ CombatExit

ProcsSpec == ProcsInit /\ [][ProcsNext]_vars

-----------------------------------------------------------------------------
(* The stat getters of a hunter that advances through the stages:            *)
(* AtlasSpec applies Hunter.complete_stage and reads damage_reduction,       *)
(* effect_chance and special_chance in between.                              *)

\* the last stage AtlasSpec follows
MaxAtlasStage == 201

\* the stats whose getters account for atlas_protocol
AtlasStats == {"damage_reduction", "effect_chance", "special_chance"}

\* a read of the property `stat` of the hunter
getattr(h, stat) ==
    CASE stat = "damage_reduction" -> Hunter_damage_reduction(h)
      [] stat = "effect_chance" -> Hunter_effect_chance(h)
      [] stat = "special_chance" -> Hunter_special_chance(h)

AtlasInit ==
    /\ cfg \in Builds \cup {BorgeAtlas}
    /\ hunter = Hunter_init(cfg)
    /\ current_stage = 0
    /\ elapsed_time = 0
    /\ queue = <<>>
    /\ enemies = <<>>
    /\ enemy = NoEnemy
    /\ pc = "call"
    /\ result = NoResult
    /\ dispatched = NoEvent
    /\ n_dispatched = 0
    /\ stages_completed = 0
    /\ wave_size = 0
    /\ wave_dead = 0
    /\ spawn_input = -1
    /\ NoManager
    /\ NoCall

\* hunter.complete_stage()
AtlasCompleteStage ==
    /\ pc = "call"
    /\ hunter.current_stage < MaxAtlasStage
    /\ hunter' = Hunter_complete_stage(hunter)
    /\ call' = [NoArguments EXCEPT !.op = "complete_stage"]
    /\ ret' = NoReturn
    /\ UNCHANGED <<cfg, current_stage, elapsed_time, queue, enemies, enemy, pc, result,
                   dispatched, n_dispatched, stages_completed, wave_size, wave_dead,
                   spawn_input, manager_vars, unit>>

\* a read of hunter.damage_reduction, hunter.effect_chance or
\* hunter.special_chance
ReadStat ==
    /\ pc = "call"
    /\ \E stat \in AtlasStats :
        /\ call' = [NoArguments EXCEPT !.op = stat]
        /\ ret' = [value |-> getattr(hunter, stat), exception |-> "none"]
    /\ UNCHANGED <<cfg, hunter, current_stage, elapsed_time, queue, enemies, enemy, pc,
                   result, dispatched, n_dispatched, stages_completed, wave_size,
                   wave_dead, spawn_input, manager_vars, unit>>

AtlasNext == AtlasCompleteStage \/ ReadStat

AtlasSpec == AtlasInit /\ [][AtlasNext]_vars

-----------------------------------------------------------------------------
(* Simulation.run for the builds of Spec and a build whose Fires of War     *)
(* bonus exceeds its speed                                                  *)

\* events of a run followed; with every attack of BorgeFires one more stun is
\* left pending
MaxFiresEvents == 60

FiresInit == InitWith(Builds \cup {BorgeFires})

FiresDispatch == n_dispatched < MaxFiresEvents /\ Dispatch

FiresNext ==
    \/ SimulateCombatStart
    \/ SpawnEnemies
    \/ Trample
    \/ NextEnemy
    \/ FiresDispatch
    \/ CombatExit
    \/ CompleteStage
    \/ RunReturn

FiresSpec == FiresInit /\ [][FiresNext]_vars

-----------------------------------------------------------------------------
(* A boss fight: simulate_combat at the first boss stage with a hunter that *)
(* the boss cannot hit and that cannot out-damage the boss's regeneration;  *)
(* the time is counted from the start of the stage                          *)

\* events of the fight followed; the Exon-12 boss makes its 225th attack, in
\* second 884, as event 2050
MaxBossEvents == 2100

BossInit ==
    /\ cfg = BorgeUntouchable
    /\ current_stage = BossEvery
    /\ hunter = [Hunter_init(cfg) EXCEPT !.current_stage = current_stage]
    /\ elapsed_time = 0
    /\ queue = hpush(hpush(<<>>, <<Hunter_speed(hunter).speed, 1, "hunter">>),
                     <<0, 3, "regen">>)
    /\ enemies = <<>>
    /\ enemy = NoEnemy
    /\ pc = "stage"
    /\ result = NoResult
    /\ dispatched = NoEvent
    /\ n_dispatched = 0
    /\ stages_completed = current_stage
    /\ wave_size = 0
    /\ wave_dead = 0
    /\ spawn_input = -1
    /\ NoManager
    /\ NoCall

\* the combat loop: every event popped adds at most a second
BossDispatch == n_dispatched < MaxBossEvents /\ DispatchWithin(MaxBossEvents)

BossNext == SpawnEnemies \/ NextEnemy \/ BossDispatch

BossSpec == BossInit /\ [][BossNext]_vars

-----------------------------------------------------------------------------
(* The order of dispatch *)

Primary == {"hunter", "enemy", "enemy_special", "regen"}

Triggered == {"stun", "hunter_special"}

Range(q) == {q[i] : i \in 1..Len(q)}

\* a is not after b in (timestamp, priority)
EventLe(a, b) == a[1] < b[1] \/ (a[1] = b[1] /\ a[2] <= b[2])

\* the step is an iteration of the combat loop that popped an event
Popped == n_dispatched' = n_dispatched + 1

\* C1: whenever the combat loop pops an event, the event is one of the
\* pending events, no pending event has a smaller timestamp or, at the same
\* timestamp, a smaller priority; so at one timestamp a regen tick is not
\* dispatched while a hunter or enemy attack is pending, and an enemy attack
\* is not dispatched while a hunter attack is pending.
C1_DispatchOrder ==
    [][Popped =>
         /\ dispatched' \in Range(queue)
         /\ \A e \in Range(queue) : EventLe(dispatched', e)
         /\ \A e \in Range(queue) :
               e[1] = dispatched'[1] =>
                  /\ dispatched'[3] = "regen" => e[3] \notin {"hunter", "enemy"}
                  /\ dispatched'[3] = "enemy" => e[3] # "hunter"]_vars

\* a hunter attack was dispatched while an enemy attack and a regen tick were
\* pending for the same timestamp
C1_Witness ==
    /\ pc = "combat"
    /\ dispatched[3] = "hunter"
    /\ <<dispatched[1], 2, "enemy">> \in Range(queue)
    /\ <<dispatched[1], 3, "regen">> \in Range(queue)

\* what the specification states of triggered events: a priority below the
\* hunter primary's
C2_Original ==
    \A e \in Range(queue) : e[3] \in Triggered => e[2] < 1

\* C2 (amended): a triggered event is queued with timestamp 0 and priority
\* 0 (stun), 1 (multistrike), 2 (echo) or 3 (echo-multistrike); while a
\* triggered event is pending no primary event with a positive timestamp is
\* dispatched.
C2_TriggeredFirst ==
    /\ [](\A e \in Range(queue) :
             e[3] \in Triggered =>
                /\ e[1] = 0
                /\ e[3] = "stun" => e[2] = 0
                /\ e[3] = "hunter_special" => e[2] \in {1, 2, 3})
    /\ [][(Popped /\ (\E e \in Range(queue) : e[3] \in Triggered)
                  /\ dispatched'[3] \in Primary)
             => dispatched'[1] <= 0]_vars

\* an echo-multistrike (priority 3) was dispatched while the hunter's and the
\* enemy's next attacks and the regen tick were pending
C2_Witness ==
    /\ dispatched = <<0, 3, "hunter_special">>
    /\ \E e \in Range(queue) : e[3] = "hunter"
    /\ \E e \in Range(queue) : e[3] = "enemy"
    /\ \E e \in Range(queue) : e[3] = "regen"

\* C3: with the hunter alive, whenever the combat loop is about to pop an
\* event the queue holds a 'hunter' event and a 'regen' event.
C3_HunterAndRegenPending ==
    (pc = "combat" /\ ~Hunter_is_dead(hunter) /\ ~Enemy_is_dead(enemy)) =>
        /\ Pending(queue, "hunter") # {}
        /\ Pending(queue, "regen") # {}

\* the loop is about to pop after a hunter attack and after a regen tick were
\* dispatched and queued again
C3_Witness ==
    /\ pc = "combat"
    /\ ~Hunter_is_dead(hunter)
    /\ ~Enemy_is_dead(enemy)
    /\ dispatched[3] = "hunter"
    /\ elapsed_time > 2
    /\ hunter.times_revived > 0

-----------------------------------------------------------------------------
(* Hit points and revives *)

\* the revive charges of the build
Charges == cfg.talents.death_is_my_companion

\* what the specification states of the hunter's hp (C4): between event
\* dispatches and at the end of the run, 0 <= hp <= max_hp
C4_HpInRange == 0 <= hunter.hp /\ hunter.hp <= cfg.max_hp

\* the part of it that the code keeps: no heal or regen tick raises hp above
\* max_hp, and a live hunter's hp is positive
HpBelowMax == hunter.hp <= cfg.max_hp

\* C5: times_revived never exceeds the charges k, revive_log has one entry
\* per revive, and a dead hunter has used all k charges; a step that revives
\* consumes one charge, sets hp to 0.8 * max_hp and appends the current stage
\* to revive_log; a hunter that is dead stays dead.
C5_Revives ==
    /\ [](/\ hunter.times_revived <= Charges
          /\ Len(hunter.revive_log) = hunter.times_revived
          /\ Hunter_is_dead(hunter) => hunter.times_revived = Charges)
    /\ [][/\ hunter'.times_revived # hunter.times_revived =>
               /\ hunter'.times_revived = hunter.times_revived + 1
               /\ hunter'.hp = (cfg.max_hp * 8) \div 10
               /\ hunter'.revive_log = Append(hunter.revive_log, hunter.current_stage)
          /\ Hunter_is_dead(hunter) => Hunter_is_dead(hunter') /\ hunter'.times_revived = hunter.times_revived
         ]_vars

\* a hunter with two charges is dead after its third death, with both
\* revives logged
C5_Witness ==
    /\ Charges = 2
    /\ Hunter_is_dead(hunter)
    /\ hunter.times_revived = 2
    /\ Len(hunter.revive_log) = 2

-----------------------------------------------------------------------------
(* The end of a run *)

\* run() has returned or raised
Ended == pc \in {"done", "raised"}

\* C6: a dead hunter has no charge left, and from then on no event is
\* dispatched and nothing raises: simulate_combat returns and run() returns a
\* record whose final_stage is the number of stages completed and whose
\* elapsed_time is the simulation's elapsed time.
C6_DeathReturns ==
    /\ [](Hunter_is_dead(hunter) =>
             /\ hunter.times_revived = Charges
             /\ pc \in {"combat", "returned", "done"})
    /\ [][Hunter_is_dead(hunter) =>
             /\ n_dispatched' = n_dispatched
             /\ pc' \in {"returned", "done"}]_vars
    /\ [](pc = "done" =>
             /\ result.final_stage = stages_completed
             /\ result.elapsed_time = elapsed_time)
    /\ (Hunter_is_dead(hunter) ~> pc = "done")

\* run() has returned the record of a hunter that died fighting the boss of
\* stage 100, some seconds into the run
C6_Witness ==
    /\ pc = "done"
    /\ Hunter_is_dead(hunter)
    /\ result.elapsed_time > 0
    /\ result.final_stage = 100
    /\ stages_completed = 100
    /\ n_dispatched > 0

\* the builds whose hunter evades every attack
NeverKilled == cfg.evade_chance >= 1000

\* a hunter that evades every attack is never dead
NeverKilledAlive == NeverKilled => ~Hunter_is_dead(hunter)

-----------------------------------------------------------------------------
(* Stages and waves *)

\* the boss stages up to MaxSpawnStage: the positive multiples of 100
BossStages == {s \in 1..MaxSpawnStage : \E n \in 1..MaxSpawnStage : s = 100 * n}

\* C9: the wave spawned for stage s is one Boss when s is a positive multiple
\* of 100 and 10 regular enemies otherwise, stage 0 included; the unit count
\* of Void.spawn_exon12 / spawn_endoprime is the same.
C9_SpawnCount ==
    pc = "spawned" =>
        /\ spawn_input \in BossStages =>
              Len(enemies) = 1 /\ enemies[1].is_boss
        /\ spawn_input \notin BossStages =>
              Len(enemies) = 10 /\ \A i \in 1..10 : ~enemies[i].is_boss
        /\ unit_count(spawn_input) = Len(enemies)

\* stage 200 got its one boss
C9_Witness ==
    /\ pc = "spawned"
    /\ spawn_input = 200
    /\ Len(enemies) = 1
    /\ enemies[1].is_boss

\* C10: a step that completes a stage starts with the wave empty, each of
\* its enemies seen dead and the hunter alive, and adds exactly 1 to the
\* simulation's and to the hunter's stage counter; neither counter ever
\* decreases, and whenever the loop is about to dispatch they are equal.
C10_CompleteStage ==
    /\ [][stages_completed' # stages_completed =>
             /\ enemies = <<>>
             /\ wave_dead = wave_size
             /\ ~Hunter_is_dead(hunter)
             /\ current_stage' = current_stage + 1
             /\ hunter'.current_stage = hunter.current_stage + 1]_vars
    /\ [][/\ current_stage' >= current_stage
          /\ hunter'.current_stage >= hunter.current_stage]_vars
    /\ [](pc = "combat" => current_stage = hunter.current_stage)

\* the first enemy of the second stage is being fought after the ten of the
\* first were killed one by one
C10_Witness ==
    /\ pc = "combat"
    /\ stages_completed = 1
    /\ current_stage = 1
    /\ hunter.current_stage = 1
    /\ hunter.total_attacks >= 10
    /\ n_dispatched > 10

-----------------------------------------------------------------------------
(* The batch runner *)

\* a __run_sims call has returned and the next one has not begun
Returned == batch.pc \in {"idle", "build_2"} /\ batch.caller # "none"

\* the dict that call returned
LastReturned == IF batch.caller = "build_2" THEN res_c ELSE res

\* the dict holds exactly n records, all produced from the configuration path
RecordsOf(r, n, path) ==
    /\ Len(r.config) = n
    /\ Len(r.final_stage) = n
    /\ \A i \in 1..Len(r.config) : r.config[i] = path

\* what the specification states of __run_sims (C11): every call, sequential or
\* through the pool, the first or a later one on the same manager, returns
\* exactly `repetitions` records, all of the configuration current at the call
C11_RunSimsRecords ==
    Returned => RecordsOf(LastReturned, batch.repetitions, hunter_config_path)

\* the part of it that the code keeps: a call through the pool, and the first
\* call on a manager
RunSimsPoolRecords ==
    Returned /\ (batch.num_processes > 0 \/ (batch.calls = 1 /\ batch.caller # "build_2"))
        => RecordsOf(LastReturned, batch.repetitions, hunter_config_path)

\* what the specification states of compare_against (C12): the records reduced
\* for build 2 are the `repetitions` runs of build 2 and none of build 1
C12_CompareIndependent ==
    batch.caller = "build_2" /\ batch.pc = "idle"
        => RecordsOf(res_c, batch.repetitions, batch.compare_path)

\* what the specification states of a run that raises in a pool worker (C13):
\* the batch ends in an error naming the configuration and the index of the run
C13_WorkerErrorIdentified ==
    batch.pc = "raised" /\ batch.num_processes > 0 /\ batch.failed > 0
        => error.context = <<hunter_config_path, batch.failed>>

\* the part of it that the code keeps: a batch through the pool in which a
\* worker raised does not return, and a batch that returns has lost no run
WorkerErrorNotDropped ==
    batch.pc = "prepare" /\ batch.num_processes > 0
        => Failed(futures) = {} /\ Len(results) = batch.repetitions

-----------------------------------------------------------------------------
(* The build configuration *)

\* a hunter constructed now from the configuration the run was given, whose
\* dicts load_build shares with the hunter of the run
LaterHunter ==
    Hunter_init([cfg EXCEPT !.talents = hunter.talents,
                            !.attributes = hunter.attributes,
                            !.mods = hunter.mods])

\* C14: a run never modifies the build configuration it was constructed from:
\* the talent, attribute and mod levels the hunter holds stay those of the
\* configuration, every revive is counted in the run's own times_revived, and a
\* hunter constructed later from the same configuration has all its charges
C14_ConfigKept ==
    /\ hunter.talents = cfg.talents
    /\ hunter.attributes = cfg.attributes
    /\ hunter.mods = cfg.mods
    /\ hunter.times_revived = Len(hunter.revive_log)
    /\ LaterHunter.talents.death_is_my_companion - LaterHunter.times_revived = Charges

\* a run that has used up both charges of its build has ended
C14_Witness ==
    /\ pc = "done"
    /\ Charges = 2
    /\ hunter.times_revived = 2

-----------------------------------------------------------------------------
(* Fatal errors of the engine *)

\* C15: dispatching an event whose action is none of hunter, enemy, stun,
\* hunter_special, enemy_special, regen raises ValueError: the event is popped,
\* nothing is done to hunter or enemy for it, simulate_combat is left by the
\* exception and run() returns no record
C15_UnknownActionRaises ==
    /\ [][(pc = "combat" /\ n_dispatched' = n_dispatched + 1
                /\ dispatched'[3] \notin Kinds)
            => (pc' = "raised" /\ hunter' = hunter /\ enemy' = enemy
                /\ elapsed_time' = elapsed_time)]_vars
    /\ [](pc = "raised" => result = NoResult)
    /\ [][pc = "raised" => pc' = "raised"]_vars

\* an event of unknown kind was popped with the known events still pending
C15_Witness ==
    /\ pc = "raised"
    /\ dispatched[3] \in UnknownKinds
    /\ \E i \in 1..Len(queue) : queue[i][3] = "hunter"

-----------------------------------------------------------------------------
(* Damage received *)

\* the tallies of the hunter that receive_damage keeps
Suffered(h) == <<h.hp, h.total_taken, h.total_mitigated, h.total_attacks_suffered>>

\* C17: Hunter.receive_damage(damage) either evades, leaving hp, total_taken,
\* total_mitigated and total_attacks_suffered as they were, adding 1 to
\* total_evades and returning 0, or takes at most the raw damage and adds
\* exactly the raw damage to total_taken + total_mitigated; it evades whenever
\* the roll is below evade_chance, so always with evade_chance = 1.0
C17_ReceiveDamage ==
    [][call'.op = "receive_damage" =>
        LET damage == call'.value
            evaded == /\ Suffered(hunter') = Suffered(hunter)
                      /\ hunter'.total_evades = hunter.total_evades + 1
                      /\ ret'.value = 0
            taken == /\ hunter'.total_evades = hunter.total_evades
                     /\ 0 <= ret'.value /\ ret'.value <= damage
                     /\ hunter'.total_taken = hunter.total_taken + ret'.value
                     /\ (hunter'.total_taken + hunter'.total_mitigated)
                            = (hunter.total_taken + hunter.total_mitigated) + damage
                     /\ hunter'.total_attacks_suffered
                            = hunter.total_attacks_suffered + 1
        IN  /\ IF call'.roll < cfg.evade_chance THEN evaded ELSE taken
            /\ cfg.evade_chance = 1000 => hunter'.hp = hunter.hp]_vars

\* two attacks were taken, the last with a part of its damage mitigated
C17_Witness ==
    /\ call.op = "receive_damage"
    /\ call.n = 2
    /\ hunter.total_attacks_suffered = 2
    /\ 0 < ret.value /\ ret.value < call.value
    /\ hunter.total_mitigated > 0

\* C18: a receive_damage that is not evaded takes the damage left after the
\* damage reduction off the unit's hp and sets its stun_duration to 0; an
\* evaded one returns 0 and leaves hp and stun_duration as they were
C18_DamageClearsStun ==
    [][call'.op = "receive_damage" =>
        LET damage == call'.value
            evaded == unit.cls = "Defence_Unit" /\ call'.roll < unit.evade_chance
        IN  IF evaded
            THEN /\ unit'.hp = unit.hp
                 /\ unit'.stun_duration = unit.stun_duration
                 /\ ret'.value = 0
            ELSE /\ unit'.hp = unit.hp - (damage * (1000 - unit.damage_reduction)) \div 1000
                 /\ unit'.hp < unit.hp
                 /\ unit'.stun_duration = 0]_vars

\* a unit that had been stunned twice was hit
C18_Witness ==
    /\ call.op = "receive_damage"
    /\ unit.stuns = 2
    /\ unit.stun_duration = 0
    /\ unit.hp < unit.max_hp

-----------------------------------------------------------------------------
(* Stun and regen of a Unit *)

\* C19: Unit.stun(d) adds d to stun_duration, so that stuns accumulate, and
\* get_speed() is speed + stun_duration while stun_duration > 0 and speed
\* otherwise
C19_StunAccumulates ==
    /\ [][call'.op = "stun" =>
            unit'.stun_duration = unit.stun_duration + call'.value]_vars
    /\ [](Unit_get_speed(unit) = IF unit.stun_duration > 0
                                 THEN unit.speed + unit.stun_duration
                                 ELSE unit.speed)

\* two stuns of 0.3 and 0.7 seconds within one wind-up delay the unit by a second
C19_Witness ==
    /\ call.op = "stun"
    /\ call.n = 2
    /\ unit.stuns = 2
    /\ unit.stun_duration = Ms
    /\ Unit_get_speed(unit) = unit.speed + Ms

\* the whole time points 0, 1, ... that the unit's elapsed time has covered
TimePoints(u) == u.elapsed_time \div Ms + 1

\* what the specification states of the regen ticks (C20): after any sequence
\* of regen_hp calls as many ticks were applied as whole time points were
\* covered, none of them ticked twice
C20_RegenTicks == unit.elapsed_time > 0 => unit.ticks = TimePoints(unit)

\* the part of it that the code keeps: no time point is left out, and the
\* first call on a unit ticks each point it covers once
RegenTicksFirstCall ==
    /\ unit.elapsed_time > 0 => unit.ticks >= TimePoints(unit)
    /\ call.op = "regen_hp" /\ unit.elapsed_time = call.value
            => unit.ticks = TimePoints(unit)

-----------------------------------------------------------------------------
(* Trample *)

\* a full wave of regular enemies stands before a hunter with the trample mod
\* whose power is at least ten times the max hp of the wave's enemies
OneShotsTenTimes ==
    /\ pc = "wave"
    /\ Len(enemies) = WaveSize
    /\ cfg.mods.trample
    /\ ~enemies[1].is_boss
    /\ Hunter_power(hunter) >= TrampleCap * enemies[1].max_hp

\* C21: such a wave is cleared by one attack-equivalent event, which adds 1 to
\* total_attacks and 10 to total_kills and dispatches no event; with the wave
\* cleared the stage completes, so that no enemy of the wave ever attacks
C21_TrampleClearsWave ==
    /\ [][OneShotsTenTimes =>
            /\ hunter'.total_attacks = hunter.total_attacks + 1
            /\ hunter'.total_kills = hunter.total_kills + WaveSize
            /\ hunter'.total_attacks_suffered = hunter.total_attacks_suffered
            /\ enemies' = <<>>
            /\ wave_dead' = WaveSize
            /\ n_dispatched' = n_dispatched
            /\ queue' = queue
            /\ pc' = "wave"]_vars
    /\ [][pc = "wave" /\ enemies = <<>> /\ ~Hunter_is_dead(hunter) =>
            /\ current_stage' = current_stage + 1
            /\ stages_completed' = stages_completed + 1
            /\ n_dispatched' = n_dispatched]_vars

\* stage 0 was trampled and completed before any event was dispatched
C21_Witness ==
    /\ cfg.mods.trample
    /\ current_stage = 1
    /\ stages_completed = 1
    /\ hunter.total_attacks = 1
    /\ hunter.total_kills = WaveSize
    /\ n_dispatched = 0

\* the whole part of power / enemies[0].max_hp
TrampleRatio == Hunter_power(hunter) \div enemies[1].max_hp

\* the trample that the head of the wave loop applies kills n of the enemies
\* left (n > 0), or none and the first enemy is taken on instead (n = 0)
TrampleKills(n) ==
    /\ hunter'.total_kills = hunter.total_kills + n
    /\ Len(enemies') = Len(enemies) - (IF n > 0 THEN n ELSE 1)
    /\ IF n > 0
       THEN /\ hunter'.total_attacks = hunter.total_attacks + 1
            /\ pc' = "wave"
       ELSE /\ hunter' = hunter
            /\ enemy' = Head(enemies)
            /\ pc' = "combat"

\* what the claim states as written (C22): against a non-boss wave with the
\* trample mod, whenever power / max hp > 1 the whole part of the ratio, capped
\* at 10 and at the number alive, is killed; none otherwise
C22_Original ==
    [][pc = "wave" /\ enemies # <<>> =>
        TrampleKills(IF cfg.mods.trample /\ ~enemies[1].is_boss
                        /\ Hunter_power(hunter) > enemies[1].max_hp
                     THEN Min(Min(TrampleRatio, TrampleCap), Len(enemies))
                     ELSE 0)]_vars

\* C22, amended: against a non-boss wave with the trample mod, whenever the
\* whole part of power / max hp of the wave's first enemy is greater than 1,
\* that is the ratio at least 2, apply_trample kills that many of the live
\* enemies, capped at 10 and at the number alive; it kills none when the ratio
\* is below 2, and it is never applied to a boss
C22_TrampleKills ==
    [][pc = "wave" /\ enemies # <<>> =>
        TrampleKills(IF cfg.mods.trample /\ ~enemies[1].is_boss /\ TrampleRatio > 1
                     THEN Min(Min(TrampleRatio, TrampleCap), Len(enemies))
                     ELSE 0)]_vars

\* a hunter of power 27 has trampled 3 of a stage-0 wave of max hp 9
C22_Witness ==
    /\ cfg.mods.trample
    /\ cfg.power = 2700
    /\ current_stage = 0
    /\ hunter.total_kills = 3
    /\ hunter.total_attacks = 1
    /\ Len(enemies) = WaveSize - 3

\* C23: a boss's attack interval shrinks with every attack it makes but is
\* held at a floor: after any number of boss attacks the boss's speed is still
\* strictly positive
C23_BossSpeedPositive == enemy.is_boss => enemy.speed > 0

\* the call of make_printable on the res_dict of a single run has returned
SingleRunReduced == call.op = "make_printable" /\ Len(res.final_stage) = 1

\* C24: for a batch of a single run make_printable returns, for every scalar
\* field of the record, a mean equal to the run's value and a standard
\* deviation of 0
C24_SingleRun ==
    SingleRunReduced =>
        /\ ret.exception = "none"
        /\ \A k \in ScalarFields :
              /\ k \in DOMAIN ret.value.avg
              /\ ret.value.avg[k] = res[k][1]
              /\ k \in DOMAIN ret.value.std
              /\ ret.value.std[k] = 0

C24_Witness ==
    /\ SingleRunReduced
    /\ ret.exception = "none"
    /\ res.final_stage = <<BossEvery>>
    /\ ret.value.avg["final_stage"] = BossEvery
    /\ ret.value.avg["elapsed_time"] = 3600
    /\ ret.value.avg["total_loot"] = 2
    /\ ret.value.std["total_loot"] = 0

\* the sub-attack type Ozzy.attack queues together with a 'hunter_special'
\* event of the given priority
SubAttackType(priority) ==
    CASE priority = 1 -> "(MS)"
      [] priority = 2 -> "(ECHO)"
      [] priority = 3 -> "(ECHO-MS)"
      [] OTHER -> "none"

\* the types the pending 'hunter_special' events were queued for, in the order
\* in which the events will be popped
PendingSubAttacks ==
    LET qs == SelectSeq(queue, LAMBDA ev : ev[3] = "hunter_special")
    IN  [i \in 1..Len(qs) |-> SubAttackType(qs[i][2])]

\* C25: the sub-attacks triggered by one Ozzy main attack resolve in the order
\* main, multistrike, echo, echo-multistrike: the pending 'hunter_special'
\* events are popped in the order of the types in attack_queue, each popped
\* event resolves the type it was queued for, and a 'hunter' event resolves a
\* main attack
C25_SubAttackOrder ==
    /\ [](PendingSubAttacks = hunter.attack_queue)
    /\ [][(Popped /\ dispatched'[3] = "hunter_special") =>
            /\ hunter.attack_queue # <<>>
            /\ Head(hunter.attack_queue) = SubAttackType(dispatched'[2])
            /\ \E rest \in {<<>>, <<"(ECHO-MS)">>} :
                    hunter'.attack_queue = Tail(hunter.attack_queue) \o rest]_vars
    /\ [][(Popped /\ dispatched'[3] = "hunter") => hunter.attack_queue = <<>>]_vars

\* an echo-multistrike was resolved after a multistrike and an echo
C25_Witness ==
    /\ cfg = OzzyTriggers
    /\ dispatched = <<0, 3, "hunter_special">>
    /\ hunter.attack_queue = <<>>
    /\ hunter.total_attacks = 1

\* the number of pending 'stun' events
StunsPending(q) == Cardinality(Pending(q, "stun"))

\* C26: only a main attack can stun: the number of pending 'stun' events grows
\* only in the dispatch of a 'hunter' event, and the dispatch of a
\* 'hunter_special' event pushes no 'stun' event and leaves total_attacks as
\* it is
C26_OnlyMainStuns ==
    /\ [][StunsPending(queue') > StunsPending(queue) =>
            Popped /\ dispatched'[3] = "hunter"]_vars
    /\ [][(Popped /\ dispatched'[3] = "hunter_special") =>
            /\ StunsPending(queue') = StunsPending(queue)
            /\ hunter'.total_attacks = hunter.total_attacks]_vars

\* a multistrike was resolved, by a hunter whose main attack always stuns,
\* after the stun of the one main attack made was applied
C26_Witness ==
    /\ cfg = OzzyBurst
    /\ dispatched = <<0, 1, "hunter_special">>
    /\ hunter.total_attacks = 1
    /\ hunter.total_stuntime_inflicted > 0
    /\ StunsPending(queue) = 0

\* the hp the statistics say were restored so far
Tallied(h) == h.total_regen + h.total_lifesteal + h.total_loth + h.total_potion

\* C27: every heal is tallied exactly once, by its effective amount, into the
\* counter of its source: in the dispatch of an event in which the hunter is
\* not attacked (an attack of the hunter, a stun or a regen tick), the
\* statistics counters of the heal sources grow by exactly the hp restored
C27_HealsTalliedOnce ==
    [][(Popped /\ dispatched'[3] \in {"hunter", "hunter_special", "stun", "regen"}) =>
          Tallied(hunter') - Tallied(hunter) = hunter'.hp - hunter.hp]_vars

\* the events that queue their own next occurrence
Rescheduled == {"hunter", "enemy", "enemy_special"}

\* C28: simulated time never moves backwards: an event that queues its own
\* next occurrence queues it with a timestamp strictly greater than its own,
\* also when a Fires of War bonus is subtracted from the hunter's speed, and
\* of two primary or regen events dispatched one after the other the second
\* has no smaller timestamp
C28_TimeForward ==
    /\ [][(Popped /\ dispatched'[3] \in Rescheduled) =>
            \A i \in Pending(queue', dispatched'[3]) :
                queue'[i][1] > dispatched'[1]]_vars
    /\ [][(Popped /\ dispatched[3] \in Primary /\ dispatched'[3] \in Primary) =>
            dispatched'[1] >= dispatched[1]]_vars

\* C29: at every pop exactly one 'hunter' event and exactly one 'regen' event
\* are pending and the pending regen's timestamp equals elapsed_time;
\* elapsed_time grows by exactly 1 in the dispatch of a regen event and is
\* changed by nothing else
C29_OneHunterOneRegen ==
    /\ [](pc = "combat" =>
            /\ Cardinality(Pending(queue, "hunter")) = 1
            /\ Cardinality(Pending(queue, "regen")) = 1
            /\ \A i \in Pending(queue, "regen") : queue[i][1] = elapsed_time * Ms)
    /\ [][(Popped /\ dispatched'[3] = "regen") =>
            elapsed_time' = elapsed_time + 1]_vars
    /\ [][elapsed_time' # elapsed_time =>
            Popped /\ dispatched'[3] = "regen"]_vars

\* the regen event of second 4 is pending after the one of second 3 was
\* dispatched, with the hunter's attack pending behind it
C29_Witness ==
    /\ pc = "combat"
    /\ dispatched = <<3 * Ms, 3, "regen">>
    /\ elapsed_time = 4
    /\ \E i \in Pending(queue, "regen"), j \in Pending(queue, "hunter") :
          queue[i][1] = 4 * Ms /\ i < j

\* the next enemy of the wave enters combat
EnemyEnters == pc = "wave" /\ pc' = "combat"

-----------------------------------------------------------------------------
(* C31: a stun stays with the enemy whose hit triggered it *)

\* C31: a stun triggered by an attack on an enemy is applied to that enemy only:
\* when an enemy enters combat (also the first enemy of a stage), no 'stun'
\* event left by an attack on an earlier enemy is pending, so none is applied
\* to it
C31_StunOnlyOnTarget ==
    [][EnemyEnters => StunsPending(queue') = 0]_vars
-----------------------------------------------------------------------------
(* C32: the pending sub-attack events and attack_queue *)

\* C32: the number of pending 'hunter_special' events equals the length of the
\* hunter's attack_queue at every point of a run, across enemy deaths and
\* stage changes; the dispatch of a 'hunter_special' event finds a queued
\* sub-attack type and consumes it without counting an attack, and the
\* dispatch of a 'hunter' event finds attack_queue empty and is resolved as a
\* main attack
C32_SubAttacksMatchQueue ==
    /\ [](Cardinality(Pending(queue, "hunter_special")) = Len(hunter.attack_queue))
    /\ [][(Popped /\ dispatched'[3] = "hunter_special") =>
            /\ Len(hunter.attack_queue) > 0
            /\ Len(hunter'.attack_queue) \in {Len(hunter.attack_queue) - 1,
                                              Len(hunter.attack_queue)}
            /\ hunter'.total_attacks = hunter.total_attacks]_vars
    /\ [][(Popped /\ dispatched'[3] = "hunter") =>
            /\ Len(hunter.attack_queue) = 0
            /\ hunter'.total_attacks = hunter.total_attacks + 1]_vars

\* the echo-multistrike left pending when the last enemy of stage 0 died was
\* resolved against the first enemy of stage 1
C32_Witness ==
    /\ cfg.cls = "Ozzy"
    /\ current_stage = 1
    /\ wave_dead = 0
    /\ pc = "combat"
    /\ dispatched = <<0, 3, "hunter_special">>
    /\ hunter.total_kills = WaveSize
-----------------------------------------------------------------------------
(* C33: reflected damage *)

\* an 'enemy' or 'enemy_special' event was popped and handled in this step
EnemyAttacked == Popped /\ dispatched'[3] \in {"enemy", "enemy_special"}

\* C33: an enemy loses hp during its own attack only by reflection, and only
\* when the hit was not evaded and left the hunter alive; an enemy killed by
\* the reflection of its own attack is not queued again, and the next step
\* leaves the combat loop without popping another event
C33_ReflectedKill ==
    /\ [][(EnemyAttacked /\ enemy'.hp < enemy.hp) =>
            /\ hunter'.total_attacks_suffered = hunter.total_attacks_suffered + 1
            /\ hunter'.total_evades = hunter.total_evades
            /\ ~Hunter_is_dead(hunter')]_vars
    /\ [][(EnemyAttacked /\ Enemy_is_dead(enemy')) =>
            Pending(queue', dispatched'[3]) = {}]_vars
    /\ [][(pc = "combat" /\ Enemy_is_dead(enemy) /\ ~Hunter_is_dead(hunter)) =>
            /\ pc' = "wave"
            /\ n_dispatched' = n_dispatched
            /\ queue' = queue]_vars

\* an enemy was killed by the reflection of its own attack on a live hunter
C33_Witness ==
    /\ pc = "combat"
    /\ dispatched[3] = "enemy"
    /\ Enemy_is_dead(enemy)
    /\ ~Hunter_is_dead(hunter)
    /\ hunter.total_attacks_suffered > 0
    /\ Pending(queue, "enemy") = {}
-----------------------------------------------------------------------------
(* C34: Fires of War shortens one attack interval *)

\* Borge's speed without the Fires of War bonus
UnreducedSpeed == Hunter_speed([hunter EXCEPT !.fires_of_war = 0]).speed

\* the time of the pending 'hunter' event of a queue
NextHunterTime(q) == q[CHOOSE i \in Pending(q, "hunter") : TRUE][1]

\* Fires of War is the only effect talent of the build
OnlyFiresOfWar ==
    /\ cfg.cls = "Borge"
    /\ cfg.talents.fires_of_war > 0
    /\ cfg.talents.life_of_the_hunt = 0
    /\ cfg.talents.impeccable_impacts = 0

\* C34: a Fires of War proc shortens exactly one attack interval: the bonus is
\* consumed by the speed read of the reschedule of the attack that procced it,
\* so it is 0 between events; the interval to the next attack is the speed
\* less the bonus when the attack procced and the unreduced speed otherwise
C34_FiresOfWarOnce ==
    /\ [](hunter.fires_of_war = 0)
    /\ [][(Popped /\ dispatched'[3] = "hunter" /\ cfg.cls = "Borge") =>
            LET interval == NextHunterTime(queue') - dispatched'[1]
                bonus == cfg.talents.fires_of_war * 100
                procced == hunter'.total_effect_procs > hunter.total_effect_procs
            IN  /\ interval \in {UnreducedSpeed, UnreducedSpeed - bonus}
                /\ ~procced => interval = UnreducedSpeed
                /\ OnlyFiresOfWar =>
                        (procced <=> interval = UnreducedSpeed - bonus)]_vars

\* the first attack procced Fires of War and the second did not: the second
\* came 0.5 s early and the third is queued a full 2 s after it
C34_Witness ==
    /\ cfg = BorgeEmber
    /\ dispatched = <<3500, 1, "hunter">>
    /\ hunter.total_attacks = 2
    /\ hunter.total_effect_procs = 1
    /\ NextHunterTime(queue) = 5500
-----------------------------------------------------------------------------
(* C35: atlas_protocol on boss stages *)

\* the base value of a stat and the bonus one point of atlas_protocol adds
AtlasBase(stat) ==
    CASE stat = "damage_reduction" -> cfg.damage_reduction
      [] stat = "effect_chance" -> cfg.effect_chance
      [] stat = "special_chance" -> cfg.special_chance

AtlasPerPoint(stat) ==
    CASE stat = "damage_reduction" -> 7
      [] stat = "effect_chance" -> 14
      [] stat = "special_chance" -> 25

\* C35: a read of Borge's damage_reduction, effect_chance or special_chance
\* returns the base value plus the atlas_protocol bonus if and only if the
\* hunter's current_stage is a positive multiple of 100 at the time of the
\* read, and the base value otherwise: the bonus appears when a boss stage is
\* entered and is gone when it is completed
C35_AtlasOnBossStage ==
    \A stat \in AtlasStats : call.op = stat =>
        ret.value = AtlasBase(stat) +
            (IF /\ cfg.cls = "Borge"
                /\ hunter.current_stage % 100 = 0
                /\ hunter.current_stage > 0
             THEN cfg.attributes.atlas_protocol * AtlasPerPoint(stat)
             ELSE 0)

\* the bonus was read on the second boss stage, after the stages 101 to 199
\* without it
C35_Witness ==
    /\ cfg = BorgeAtlas
    /\ hunter.current_stage = 200
    /\ call.op = "special_chance"
    /\ ret.value = 550
-----------------------------------------------------------------------------
(* C36: the three effects of a Borge attack *)

\* what a step shows of the effects of a Borge attack: Life of the Hunt was
\* tallied, a 'stun' event was pushed, the next attack comes early
LotHProcced == hunter'.total_loth > hunter.total_loth
StunProcced == StunsPending(queue') = StunsPending(queue) + 1
FoWProcced == NextHunterTime(queue') - dispatched'[1] < UnreducedSpeed

Count(b) == IF b THEN 1 ELSE 0

\* C36: in one Borge attack Life of the Hunt, the stun and Fires of War proc
\* independently of each other, total_effect_procs grows by exactly the number
\* of them that procced, and an effect whose talent level is 0 does not proc
C36_IndependentProcs ==
    [][(Popped /\ dispatched'[3] = "hunter" /\ cfg.cls = "Borge") =>
        /\ hunter'.total_effect_procs = hunter.total_effect_procs
                + Count(LotHProcced) + Count(StunProcced) + Count(FoWProcced)
        /\ StunsPending(queue') \in {StunsPending(queue), StunsPending(queue) + 1}
        /\ cfg.talents.life_of_the_hunt = 0 => ~LotHProcced
        /\ cfg.talents.impeccable_impacts = 0 => ~StunProcced
        /\ cfg.talents.fires_of_war = 0 => ~FoWProcced]_vars

\* the first attack procced Life of the Hunt and Fires of War without the stun
C36_Witness ==
    /\ cfg = BorgeProcs
    /\ dispatched[3] = "hunter"
    /\ hunter.total_attacks = 1
    /\ hunter.total_effect_procs = 2
    /\ hunter.total_loth > 0
    /\ StunsPending(queue) = 0
    /\ NextHunterTime(queue) = dispatched[1] + cfg.speed - 500
-----------------------------------------------------------------------------
(* C37: a trampled wave is cleared by trample steps alone *)

\* enemies of a regular wave are left before a hunter whose power is at least
\* twice the first enemy's max_hp, with the trample mod
TrampleFires ==
    /\ pc = "wave"
    /\ enemies # <<>>
    /\ cfg.mods.trample
    /\ ~enemies[1].is_boss
    /\ TrampleRatio >= 2

-----------------------------------------------------------------------------
(* C38: the raise after the stage loop *)

\* C38: the raise of line 433 is unreachable: the hunter is alive whenever the
\* head of the stage loop is reached, at the start and after every completed
\* stage, so the loop always goes on to spawn the next wave; simulate_combat
\* returns only with a dead hunter and is left by an exception only for an
\* event of unknown action
C38_NoRaiseAfterLoop ==
    /\ [](pc \in {"stage", "wave"} => ~Hunter_is_dead(hunter))
    /\ [][pc = "stage" => pc' = "wave"]_vars
    /\ [](pc \in {"returned", "done"} => Hunter_is_dead(hunter))
    /\ [](pc = "raised" => dispatched[3] \notin Kinds)

\* a stage was completed by a hunter that had died and revived on the way
C38_Witness ==
    /\ pc = "stage"
    /\ current_stage >= 1
    /\ hunter.times_revived > 0
    /\ ~Hunter_is_dead(hunter)
-----------------------------------------------------------------------------
(* C39: elapsed_time at the end of a run *)

-----------------------------------------------------------------------------
(* C40: heal_hp on the error path *)

\* C40: a call of heal_hp that raises ValueError for an unknown source tag
\* leaves the hunter's hp and all its statistics counters as they were
C40_RaiseAppliesNoHeal ==
    [][(call'.op = "heal_hp" /\ call'.n = call.n + 1
            /\ ret'.exception = "ValueError") => hunter' = hunter]_vars
=============================================================================
